---- MODULE Spec2Model ----
(***************************************************************************)
(* Model of the operator tooling of frs-development-platform:              *)
(*   scripts/deployment/health_check.py   (InstanceHealthChecker, main)    *)
(*   scripts/migration/analyze_mdm_usage.py (JogetAppAnalyzer)             *)
(*   src/frs_platform/clients/joget_client.py (JogetAPIClient)             *)
(*   src/frs_platform/utils/config_loader.py (ConfigLoader, module global) *)
(* Python strings that the code inspects character by character (class     *)
(* names, process lines, column tokens) are sequences of one-character     *)
(* strings, so lower(), `in`, split('.') and replace() are computed.       *)
(***************************************************************************)
EXTENDS Integers, Sequences, FiniteSets, TLC

VARIABLES
    \* ---- InstanceHealthChecker (one checker object) ----
    config,          \* self.config: the instance descriptor
    results,         \* self.results: list of CheckResult
    pc,              \* position inside run_all_checks
    probe,           \* outcomes of the external calls made by the last check
    returned,        \* value returned by the last run_all_checks
    runs,            \* number of run_all_checks invocations on this object
    host,            \* state of the probed host when it is held fixed
    \* ---- health_check.main ----
    mpc,             \* position inside main
    args,            \* parsed command line
    instances_to_check,
    idx,             \* number of instances the loop of main has finished
    all_results,     \* dict instance name -> overall status
    exit_code,
    \* ---- JogetAppAnalyzer and analyze_mdm_usage.main ----
    archive,         \* the application export at self.app_export_path
    app_data,        \* self.app_data
    forms,           \* the form list of analyze
    fidx,            \* number of forms the loop of analyze has finished
    dependencies,    \* self.dependencies
    warnings,        \* self.warnings
    report,          \* the AnalysisReport analyze returned
    apc,             \* position inside analyze / main
    scan_exit,       \* exit status of the scan
    output,          \* the report document main wrote
    evaluated,       \* the elements _analyze_mdm_field was called with
    \* ---- JogetAPIClient.get_health_status ----
    health,          \* the health mapping being filled in
    cpc,             \* position inside get_health_status
    calls,           \* the requests the client issued, with their outcomes
    \* ---- config_loader: ConfigLoader objects and the module global ----
    loaders,         \* every ConfigLoader constructed so far, by identity
    _config_loader,  \* the module global: the identity of a loader, or None
    files,           \* the configuration files on disk, by path
    lcall            \* the last call into the module and its outcome

hvars == <<config, results, pc, probe, returned, runs, host>>
mvars == <<mpc, args, instances_to_check, idx, all_results, exit_code>>
svars == <<archive, app_data, forms, fidx, dependencies, warnings, report, apc, scan_exit, output,
          evaluated>>
cvars == <<health, cpc, calls>>
lvars == <<loaders, _config_loader, files, lcall>>

(***************************************************************************)
(* Bounds                                                                  *)
(***************************************************************************)
MaxRuns == 2         \* run_all_checks invocations on one checker object

(***************************************************************************)
(* Python string helpers over character sequences                          *)
(***************************************************************************)
UpperChars == <<"A","B","C","D","E","F","G","H","I","J","K","L","M","N","O","P","Q","R","S","T","U","V","W","X","Y","Z">>
LowerChars == <<"a","b","c","d","e","f","g","h","i","j","k","l","m","n","o","p","q","r","s","t","u","v","w","x","y","z">>
Digits == <<"0","1","2","3","4","5","6","7","8","9">>

\* str.lower() on one character
LowerChar(c) ==
    IF \E i \in 1..26 : UpperChars[i] = c
    THEN LowerChars[CHOOSE i \in 1..26 : UpperChars[i] = c]
    ELSE c

\* str.lower()
lower(s) == [i \in 1..Len(s) |-> LowerChar(s[i])]

\* `sub in s` for strings
StrIn(sub, s) ==
    \E i \in 0..(Len(s) - Len(sub)) : SubSeq(s, i + 1, i + Len(sub)) = sub

\* s.split(sep)[-1] for a one-character separator
LastComponent(s, sep) ==
    LET seps == {i \in 1..Len(s) : s[i] = sep}
    IN  IF seps = {} THEN s
        ELSE LET last == CHOOSE i \in seps : \A j \in seps : j <= i
             IN  SubSeq(s, last + 1, Len(s))

\* s.replace(old, new): leftmost non-overlapping occurrences, old non-empty
RECURSIVE replace(_, _, _)
replace(s, old, new) ==
    IF Len(s) < Len(old) THEN s
    ELSE IF SubSeq(s, 1, Len(old)) = old
         THEN new \o replace(SubSeq(s, Len(old) + 1, Len(s)), old, new)
         ELSE <<s[1]>> \o replace(Tail(s), old, new)

\* s.rstrip(ch) for a one-character set
RECURSIVE rstrip(_, _)
rstrip(s, ch) ==
    IF Len(s) > 0 /\ s[Len(s)] = ch THEN rstrip(SubSeq(s, 1, Len(s) - 1), ch) ELSE s

DigitVal(c) == (CHOOSE i \in 1..10 : Digits[i] = c) - 1
IsDigit(c) == \E i \in 1..10 : Digits[i] = c

RECURSIVE DigitsVal(_)
DigitsVal(s) ==
    IF Len(s) = 0 THEN 0
    ELSE 10 * DigitsVal(SubSeq(s, 1, Len(s) - 1)) + DigitVal(s[Len(s)])

\* int(s) succeeds: optional sign followed by at least one decimal digit
IsInt(s) ==
    LET body == IF Len(s) > 0 /\ s[1] \in {"-", "+"} THEN Tail(s) ELSE s
    IN  Len(body) > 0 /\ \A i \in 1..Len(body) : IsDigit(body[i])

\* int(s) when IsInt(s)
ParseInt(s) ==
    IF s[1] = "-" THEN 0 - DigitsVal(Tail(s))
    ELSE IF s[1] = "+" THEN DigitsVal(Tail(s))
    ELSE DigitsVal(s)

(***************************************************************************)
(* health_check.py: HealthStatus and CheckResult                           *)
(***************************************************************************)
HEALTHY == "HEALTHY"
DEGRADED == "DEGRADED"
UNHEALTHY == "UNHEALTHY"
UNKNOWN == "UNKNOWN"
HealthStatus == {HEALTHY, DEGRADED, UNHEALTHY, UNKNOWN}

\* A check whose exception no handler of the check catches
PROPAGATES == "PROPAGATES"

CheckResult(name, status) == [check_name |-> name, status |-> status]

\* Exception classes of the probes.  BaseException stands for the classes
\* that do not derive from Exception (KeyboardInterrupt, SystemExit).
DerivesFromException(kind) == kind # "BaseException"

\* requests.exceptions: ConnectTimeout derives from ConnectionError and Timeout
IsConnectionError(kind) == kind \in {"ConnectionError", "ConnectTimeout"}
IsTimeout(kind) == kind \in {"ConnectTimeout", "ReadTimeout"}

S_joget == <<"j","o","g","e","t">>
V_816 == <<"8",".","1",".","6">>
V_900 == <<"9",".","0",".","0">>

\* InstanceHealthChecker.INSTANCES
INSTANCES ==
    [jdx1 |-> [web_port |-> 8080, db_port |-> 3306, version |-> V_816],
     jdx2 |-> [web_port |-> 9999, db_port |-> 3307, version |-> V_816],
     jdx3 |-> [web_port |-> 8888, db_port |-> 3308, version |-> V_900],
     jdx4 |-> [web_port |-> 8081, db_port |-> 3309, version |-> V_900],
     jdx5 |-> [web_port |-> 8082, db_port |-> 3310, version |-> V_900],
     jdx6 |-> [web_port |-> 8083, db_port |-> 3311, version |-> V_900]]


\* A custom descriptor (--config) that does not configure a version
CustomConfig == [web_port |-> 8085, db_port |-> 3312]

\* dict.get(key, default)
Get(d, key, default) == IF key \in DOMAIN d THEN d[key] ELSE default

(***************************************************************************)
(* Outcomes of the external probes.  An HTTP probe either returns a        *)
(* response or raises; a subprocess probe either completes with a return   *)
(* code and its stdout, or raises.  stdout is given as its lines, a df or  *)
(* free line as its whitespace-separated columns.                          *)
(***************************************************************************)
Response(code) == [kind |-> "response", status_code |-> code]
HttpRaises(k) == [kind |-> k, status_code |-> 0]
Completed(rc, out) == [kind |-> "completed", returncode |-> rc, stdout |-> out]
SubprocessRaises(k) == [kind |-> k, returncode |-> 0, stdout |-> <<>>]

WebOutcomes ==
    {Response(200), Response(404)}
    \cup {HttpRaises(k) : k \in {"ConnectionError", "ConnectTimeout", "ReadTimeout",
                                 "Exception", "BaseException"}}

DbOutcomes ==
    {Completed(0, <<>>), Completed(1, <<>>)}
    \cup {SubprocessRaises(k) : k \in {"TimeoutExpired", "FileNotFoundError",
                                       "Exception", "BaseException"}}

AdminOutcomes ==
    {Response(200), Response(302), Response(401), Response(500)}
    \cup {HttpRaises(k) : k \in {"ConnectionError", "ReadTimeout", "Exception", "BaseException"}}

PS_joget900 == <<"j","a","v","a"," ","-","D","w","f","l","o","w",".","h","o","m","e","=","/","o","p","t","/","j","o","g","e","t","-","9",".","0",".","0","/","w","f","l","o","w">>
PS_Joget816 == <<"j","a","v","a"," ","/","o","p","t","/","J","o","g","e","t","-","D","X","-","8",".","1",".","6","/","t","o","m","c","a","t">>
PS_tomcat900 == <<"j","a","v","a"," ","/","o","p","t","/","t","o","m","c","a","t","-","9",".","0",".","0","/","b","i","n">>
PS_bash == <<"-","b","a","s","h">>

ProcOutcomes ==
    {Completed(0, <<PS_bash>>), Completed(0, <<PS_bash, PS_joget900>>),
     Completed(0, <<PS_Joget816, PS_tomcat900>>)}
    \cup {SubprocessRaises(k) : k \in {"TimeoutExpired", "FileNotFoundError", "BaseException"}}

T_Filesystem == <<"F","i","l","e","s","y","s","t","e","m">>
T_Size == <<"S","i","z","e">>
T_Used == <<"U","s","e","d">>
T_Avail == <<"A","v","a","i","l">>
T_UsePct == <<"U","s","e","%">>
T_Mounted == <<"M","o","u","n","t","e","d">>
T_dev == <<"/","d","e","v","/","s","d","a","1">>
T_50G == <<"5","0","G">>
T_40G == <<"4","0","G">>
T_10G == <<"1","0","G">>
T_root == <<"/">>
T_79pct == <<"7","9","%">>
T_80pct == <<"8","0","%">>
T_89pct == <<"8","9","%">>
T_90pct == <<"9","0","%">>
T_100pct == <<"1","0","0","%">>
T_dash == <<"-">>

DfHeader == <<T_Filesystem, T_Size, T_Used, T_Avail, T_UsePct, T_Mounted>>
DfRow(pct) == <<T_dev, T_50G, T_40G, T_10G, pct, T_root>>

DiskOutcomes ==
    {Completed(0, <<DfHeader, DfRow(p)>>) : p \in {T_79pct, T_80pct, T_89pct, T_90pct, T_100pct, T_dash}}
    \cup {Completed(1, <<DfHeader>>), Completed(0, <<DfHeader, <<T_dev, T_50G, T_40G, T_10G>> >>)}
    \cup {SubprocessRaises(k) : k \in {"TimeoutExpired", "FileNotFoundError", "BaseException"}}

T_total == <<"t","o","t","a","l">>
T_used == <<"u","s","e","d">>
T_free == <<"f","r","e","e">>
T_Mem == <<"M","e","m",":">>
T_0 == <<"0">>
T_1000 == <<"1","0","0","0">>
T_790 == <<"7","9","0">>
T_800 == <<"8","0","0">>
T_899 == <<"8","9","9">>
T_900 == <<"9","0","0">>

FreeHeader == <<T_total, T_used, T_free>>
FreeRow(total, used) == <<T_Mem, total, used>>

MemOutcomes ==
    {Completed(0, <<FreeHeader, FreeRow(T_1000, u)>>) : u \in {T_790, T_800, T_899, T_900, T_dash}}
    \cup {Completed(0, <<FreeHeader, FreeRow(T_0, T_0)>>), Completed(0, <<FreeHeader, <<T_Mem, T_1000>> >>),
          Completed(1, <<FreeHeader>>)}
    \cup {SubprocessRaises(k) : k \in {"FileNotFoundError", "TimeoutExpired", "BaseException"}}

(***************************************************************************)
(* The six checks.  Each operator gives the status of the one CheckResult  *)
(* the check appends for a probe outcome, or PROPAGATES when the exception *)
(* passes every except clause of the check.                                *)
(***************************************************************************)
\* _check_web_interface: the except clauses are tried in source order
check_web_interface(o) ==
    IF o.kind = "response"
    THEN IF o.status_code = 200 THEN HEALTHY ELSE DEGRADED
    ELSE IF IsConnectionError(o.kind) THEN UNHEALTHY
    ELSE IF IsTimeout(o.kind) THEN DEGRADED
    ELSE IF DerivesFromException(o.kind) THEN UNHEALTHY
    ELSE PROPAGATES

\* the except clauses of _check_database_connection
database_except(kind) ==
    IF kind = "TimeoutExpired" THEN DEGRADED
    ELSE IF kind = "FileNotFoundError" THEN UNKNOWN
    ELSE IF DerivesFromException(kind) THEN UNKNOWN
    ELSE PROPAGATES

\* a retry after every first invocation that did not succeed, timeouts and a
\* missing binary included
database_retries_any_failure(first) ==
    first.kind # "completed" \/ first.returncode # 0

\* the second subprocess.run happens only after a non-zero first return code
database_retries(first) == first.kind = "completed" /\ first.returncode # 0

\* _check_database_connection without the retry after a non-zero return code
check_database_connection_no_retry(first, second) ==
    IF first.kind = "completed"
    THEN IF first.returncode = 0 THEN HEALTHY ELSE DEGRADED
    ELSE database_except(first.kind)

\* _check_database_connection
check_database_connection(first, second) ==
    IF first.kind = "completed"
    THEN IF first.returncode = 0 THEN HEALTHY
         ELSE IF second.kind = "completed"
              THEN IF second.returncode = 0 THEN HEALTHY ELSE DEGRADED
              ELSE database_except(second.kind)
    ELSE database_except(first.kind)

\* _check_admin_console with the exception classified like the web check does
check_admin_console_unhealthy(o) ==
    IF o.kind = "response"
    THEN IF o.status_code \in {200, 302, 401} THEN HEALTHY ELSE DEGRADED
    ELSE IF DerivesFromException(o.kind) THEN UNHEALTHY
    ELSE PROPAGATES

\* _check_admin_console
check_admin_console(o) ==
    IF o.kind = "response"
    THEN IF o.status_code \in {200, 302, 401} THEN HEALTHY ELSE DEGRADED
    ELSE IF DerivesFromException(o.kind) THEN DEGRADED
    ELSE PROPAGATES

\* _check_process_running without the version test
check_process_running_any_version(cfg, o) ==
    IF o.kind = "completed"
    THEN LET joget_processes ==
                 SelectSeq(o.stdout, LAMBDA line : StrIn(S_joget, lower(line)))
         IN  IF Len(joget_processes) > 0 THEN HEALTHY ELSE UNHEALTHY
    ELSE IF DerivesFromException(o.kind) THEN UNKNOWN
    ELSE PROPAGATES

\* _check_process_running
check_process_running(cfg, o) ==
    IF o.kind = "completed"
    THEN LET version == Get(cfg, "version", <<>>)
             joget_processes ==
                 SelectSeq(o.stdout,
                           LAMBDA line : StrIn(S_joget, lower(line)) /\ StrIn(version, line))
         IN  IF Len(joget_processes) > 0 THEN HEALTHY ELSE UNHEALTHY
    ELSE IF DerivesFromException(o.kind) THEN UNKNOWN
    ELSE PROPAGATES

\* the thresholds with `<=` in place of `<`
threshold_status_inclusive(used_percent) ==
    IF used_percent <= 80 THEN HEALTHY
    ELSE IF used_percent <= 90 THEN DEGRADED
    ELSE UNHEALTHY

\* the 80/90 thresholds shared by the disk and memory checks
threshold_status(used_percent) ==
    IF used_percent < 80 THEN HEALTHY
    ELSE IF used_percent < 90 THEN DEGRADED
    ELSE UNHEALTHY

T_pct == "%"

\* _check_disk_space
check_disk_space(o) ==
    IF o.kind = "completed"
    THEN LET lines == o.stdout
         IN  IF Len(lines) >= 2 /\ Len(lines[2]) >= 5
             THEN LET field == rstrip(lines[2][5], T_pct)
                  IN  IF IsInt(field) THEN threshold_status(ParseInt(field))
                      ELSE UNKNOWN      \* ValueError caught by except Exception
             ELSE UNKNOWN               \* fallback if parsing fails
    ELSE IF DerivesFromException(o.kind) THEN UNKNOWN
    ELSE PROPAGATES

\* _check_memory_usage without the final `except Exception`: a zero total
\* (ZeroDivisionError) leaves the check
check_memory_usage_uncaught(o) ==
    IF o.kind = "completed"
    THEN LET lines == o.stdout
         IN  IF Len(lines) >= 2 /\ Len(lines[2]) >= 3
             THEN IF IsInt(lines[2][2]) /\ IsInt(lines[2][3])
                  THEN LET total == ParseInt(lines[2][2])
                           used == ParseInt(lines[2][3])
                       IN  IF total = 0 THEN PROPAGATES
                           ELSE threshold_status((used * 100) \div total)
                  ELSE PROPAGATES
             ELSE UNKNOWN
    ELSE IF o.kind = "FileNotFoundError" THEN UNKNOWN
    ELSE PROPAGATES

\* _check_memory_usage with the total and used columns exchanged
check_memory_usage_swapped(o) ==
    IF o.kind = "completed"
    THEN LET lines == o.stdout
         IN  IF Len(lines) >= 2 /\ Len(lines[2]) >= 3
             THEN IF IsInt(lines[2][2]) /\ IsInt(lines[2][3])
                  THEN LET total == ParseInt(lines[2][3])
                           used == ParseInt(lines[2][2])
                       IN  IF total = 0 THEN UNKNOWN
                           ELSE threshold_status((used * 100) \div total)
                  ELSE UNKNOWN
             ELSE UNKNOWN
    ELSE IF o.kind = "FileNotFoundError" THEN UNKNOWN
    ELSE IF DerivesFromException(o.kind) THEN UNKNOWN
    ELSE PROPAGATES

\* _check_memory_usage.  used_percent is int((used / total) * 100): on the
\* non-negative totals of MemOutcomes the float product truncates to the
\* integer quotient used * 100 \div total.
check_memory_usage(o) ==
    IF o.kind = "completed"
    THEN LET lines == o.stdout
         IN  IF Len(lines) >= 2 /\ Len(lines[2]) >= 3
             THEN IF IsInt(lines[2][2]) /\ IsInt(lines[2][3])
                  THEN LET total == ParseInt(lines[2][2])
                           used == ParseInt(lines[2][3])
                       IN  IF total = 0 THEN UNKNOWN   \* ZeroDivisionError caught
                           ELSE threshold_status((used * 100) \div total)
                  ELSE UNKNOWN          \* ValueError caught by except Exception
             ELSE UNKNOWN               \* fallback
    ELSE IF o.kind = "FileNotFoundError" THEN UNKNOWN
    ELSE IF DerivesFromException(o.kind) THEN UNKNOWN
    ELSE PROPAGATES

\* sum(1 for r in self.results if r.status == s)
RECURSIVE count_status(_, _)
count_status(rs, s) ==
    IF rs = <<>> THEN 0
    ELSE (IF rs[1].status = s THEN 1 ELSE 0) + count_status(Tail(rs), s)

\* _calculate_overall_status with UNKNOWN tested before DEGRADED
calculate_overall_status_swapped(rs) ==
    LET unhealthy_count == count_status(rs, UNHEALTHY)
        degraded_count == count_status(rs, DEGRADED)
        unknown_count == count_status(rs, UNKNOWN)
    IN  IF unhealthy_count > 0 THEN UNHEALTHY
        ELSE IF unknown_count > 0 THEN UNKNOWN
        ELSE IF degraded_count > 0 THEN DEGRADED
        ELSE HEALTHY

\* _calculate_overall_status
calculate_overall_status(rs) ==
    LET unhealthy_count == count_status(rs, UNHEALTHY)
        degraded_count == count_status(rs, DEGRADED)
        unknown_count == count_status(rs, UNKNOWN)
    IN  IF unhealthy_count > 0 THEN UNHEALTHY
        ELSE IF degraded_count > 0 THEN DEGRADED
        ELSE IF unknown_count > 0 THEN UNKNOWN
        ELSE HEALTHY

None == "None"
NotExited == 0 - 1

(***************************************************************************)
(* analyze_mdm_usage.py: JSON values                                       *)
(* A JSON value carries its Python type in t, so that isinstance and       *)
(* truthiness are computed.  A str that holds serialised JSON (a form's    *)
(* `json`) is the text tag: it parses to doc, or fails to parse.           *)
(***************************************************************************)
JDict(d) == [t |-> "dict", v |-> d]
JList(l) == [t |-> "list", v |-> l]
JStr(cs) == [t |-> "str", v |-> cs]
JText(parses, doc) == [t |-> "text", v |-> [parses |-> parses, doc |-> doc]]
JNull == [t |-> "null", v |-> <<>>]
EmptyDict == <<>>

\* bool(value)
Truthy(j) ==
    CASE j.t = "dict" -> DOMAIN j.v # {}
      [] j.t = "list" -> Len(j.v) > 0
      [] j.t = "str" -> Len(j.v) > 0
      [] j.t = "text" -> TRUE
      [] j.t = "null" -> FALSE

S_formOptions == <<"f","o","r","m","O","p","t","i","o","n","s">>
S_jdbcOptions == <<"j","d","b","c","O","p","t","i","o","n","s">>
S_restOptions == <<"r","e","s","t","O","p","t","i","o","n","s">>
S_static == <<"s","t","a","t","i","c">>
S_unknown == <<"u","n","k","n","o","w","n">>
S_selectBox == <<"s","e","l","e","c","t","B","o","x">>
S_SelectBox == <<"S","e","l","e","c","t","B","o","x">>
S_checkBox == <<"c","h","e","c","k","B","o","x">>
S_radio == <<"r","a","d","i","o">>
S_multiselect == <<"m","u","l","t","i","s","e","l","e","c","t">>
S_dot == "."

\* JogetAppAnalyzer.MDM_FIELD_TYPES
MDM_FIELD_TYPES == {S_selectBox, S_checkBox, S_radio, S_multiselect}

\* JogetAppAnalyzer.EXTERNAL_BINDERS: the keys in dict order
EXTERNAL_BINDERS == <<S_formOptions, S_jdbcOptions, S_restOptions>>

\* _get_field_type
get_field_type(class_name) ==
    IF StrIn(<<S_dot>>, class_name)
    THEN replace(LastComponent(class_name, S_dot), S_SelectBox, S_selectBox)
    ELSE class_name

\* _identify_binder_type: the first key, as written, found in the lowered name
identify_binder_type(binder_class) ==
    LET hits == {i \in 1..Len(EXTERNAL_BINDERS) :
                    StrIn(EXTERNAL_BINDERS[i], lower(binder_class))}
    IN  IF hits = {} THEN S_unknown
        ELSE EXTERNAL_BINDERS[CHOOSE i \in hits : \A j \in hits : i <= j]

\* the recording test without its condition
is_dependency_always(options_source, has_ajax_cascade) == TRUE

\* the test that decides whether _analyze_mdm_field records the field
is_dependency(options_source, has_ajax_cascade) ==
    options_source # S_static \/ has_ajax_cascade

\* _analyze_mdm_field with a cascade_config that captures controlField only
analyze_mdm_field_control_only(element, form_id, form_name, field_type) ==
    LET properties == Get(element, "properties", JDict(EmptyDict)).v
        field_id == Get(properties, "id", "unknown")
        field_label == Get(properties, "label", "unknown")
        binder_is_dict ==
            "optionsBinder" \in DOMAIN properties /\ properties.optionsBinder.t = "dict"
        binder_config == properties.optionsBinder.v
        options_source ==
            IF binder_is_dict
            THEN identify_binder_type(Get(binder_config, "className", JStr(<<>>)).v)
            ELSE S_static
        options_config ==
            IF binder_is_dict THEN Get(binder_config, "properties", JDict(EmptyDict))
            ELSE IF "options" \in DOMAIN properties THEN properties.options
            ELSE JDict(EmptyDict)
        has_ajax_cascade ==
            \/ Truthy(Get(properties, "controlField", JNull))
            \/ Truthy(Get(properties, "cascadeOptions", JNull))
        cascade_config ==
            IF has_ajax_cascade
            THEN JDict([controlField |-> Get(properties, "controlField", JNull)])
            ELSE JNull
    IN  IF is_dependency(options_source, has_ajax_cascade)
        THEN <<[form_id |-> form_id, form_name |-> form_name,
                field_id |-> field_id, field_label |-> field_label,
                field_type |-> field_type, options_source |-> options_source,
                options_config |-> options_config,
                has_ajax_cascade |-> has_ajax_cascade,
                cascade_config |-> cascade_config]>>
        ELSE <<>>

\* _analyze_mdm_field in which an `options` property decides before the binder
analyze_mdm_field_options_first(element, form_id, form_name, field_type) ==
    LET properties == Get(element, "properties", JDict(EmptyDict)).v
        field_id == Get(properties, "id", "unknown")
        field_label == Get(properties, "label", "unknown")
        binder_is_dict ==
            /\ "options" \notin DOMAIN properties
            /\ "optionsBinder" \in DOMAIN properties /\ properties.optionsBinder.t = "dict"
        binder_config == properties.optionsBinder.v
        options_source ==
            IF binder_is_dict
            THEN identify_binder_type(Get(binder_config, "className", JStr(<<>>)).v)
            ELSE S_static
        options_config ==
            IF binder_is_dict THEN Get(binder_config, "properties", JDict(EmptyDict))
            ELSE IF "options" \in DOMAIN properties THEN properties.options
            ELSE JDict(EmptyDict)
        has_ajax_cascade ==
            \/ Truthy(Get(properties, "controlField", JNull))
            \/ Truthy(Get(properties, "cascadeOptions", JNull))
        cascade_config ==
            IF has_ajax_cascade
            THEN JDict([controlField |-> Get(properties, "controlField", JNull),
                        cascadeOptions |-> Get(properties, "cascadeOptions", JDict(EmptyDict))])
            ELSE JNull
    IN  IF is_dependency(options_source, has_ajax_cascade)
        THEN <<[form_id |-> form_id, form_name |-> form_name,
                field_id |-> field_id, field_label |-> field_label,
                field_type |-> field_type, options_source |-> options_source,
                options_config |-> options_config,
                has_ajax_cascade |-> has_ajax_cascade,
                cascade_config |-> cascade_config]>>
        ELSE <<>>

\* _analyze_mdm_field that tests the presence of controlField / cascadeOptions
\* instead of their values
analyze_mdm_field_presence(element, form_id, form_name, field_type) ==
    LET properties == Get(element, "properties", JDict(EmptyDict)).v
        field_id == Get(properties, "id", "unknown")
        field_label == Get(properties, "label", "unknown")
        binder_is_dict ==
            "optionsBinder" \in DOMAIN properties /\ properties.optionsBinder.t = "dict"
        binder_config == properties.optionsBinder.v
        options_source ==
            IF binder_is_dict
            THEN identify_binder_type(Get(binder_config, "className", JStr(<<>>)).v)
            ELSE S_static
        options_config ==
            IF binder_is_dict THEN Get(binder_config, "properties", JDict(EmptyDict))
            ELSE IF "options" \in DOMAIN properties THEN properties.options
            ELSE JDict(EmptyDict)
        has_ajax_cascade ==
            \/ "controlField" \in DOMAIN properties
            \/ "cascadeOptions" \in DOMAIN properties
        cascade_config ==
            IF has_ajax_cascade
            THEN JDict([controlField |-> Get(properties, "controlField", JNull),
                        cascadeOptions |-> Get(properties, "cascadeOptions", JDict(EmptyDict))])
            ELSE JNull
    IN  IF is_dependency(options_source, has_ajax_cascade)
        THEN <<[form_id |-> form_id, form_name |-> form_name,
                field_id |-> field_id, field_label |-> field_label,
                field_type |-> field_type, options_source |-> options_source,
                options_config |-> options_config,
                has_ajax_cascade |-> has_ajax_cascade,
                cascade_config |-> cascade_config]>>
        ELSE <<>>

\* _analyze_mdm_field: the dependencies it appends (none or one)
analyze_mdm_field(element, form_id, form_name, field_type) ==
    LET properties == Get(element, "properties", JDict(EmptyDict)).v
        field_id == Get(properties, "id", "unknown")
        field_label == Get(properties, "label", "unknown")
        binder_is_dict ==
            "optionsBinder" \in DOMAIN properties /\ properties.optionsBinder.t = "dict"
        binder_config == properties.optionsBinder.v
        options_source ==
            IF binder_is_dict
            THEN identify_binder_type(Get(binder_config, "className", JStr(<<>>)).v)
            ELSE S_static
        options_config ==
            IF binder_is_dict THEN Get(binder_config, "properties", JDict(EmptyDict))
            ELSE IF "options" \in DOMAIN properties THEN properties.options
            ELSE JDict(EmptyDict)
        has_ajax_cascade ==
            \/ Truthy(Get(properties, "controlField", JNull))
            \/ Truthy(Get(properties, "cascadeOptions", JNull))
        cascade_config ==
            IF has_ajax_cascade
            THEN JDict([controlField |-> Get(properties, "controlField", JNull),
                        cascadeOptions |-> Get(properties, "cascadeOptions", JDict(EmptyDict))])
            ELSE JNull
    IN  IF is_dependency(options_source, has_ajax_cascade)
        THEN <<[form_id |-> form_id, form_name |-> form_name,
                field_id |-> field_id, field_label |-> field_label,
                field_type |-> field_type, options_source |-> options_source,
                options_config |-> options_config,
                has_ajax_cascade |-> has_ajax_cascade,
                cascade_config |-> cascade_config]>>
        ELSE <<>>

RECURSIVE search_elements(_, _, _)
RECURSIVE search_children(_, _, _)

\* _search_elements that walks properties.elements before elements
search_elements_nested_first(element, form_id, form_name) ==
    IF element.t # "dict" THEN <<>>
    ELSE LET e == element.v
             class_name == Get(e, "className", JStr(<<>>)).v
             field_type == get_field_type(class_name)
             own == IF field_type \in MDM_FIELD_TYPES
                    THEN analyze_mdm_field(e, form_id, form_name, field_type)
                    ELSE <<>>
             children == IF "elements" \in DOMAIN e THEN e.elements.v ELSE <<>>
             nested == IF /\ "properties" \in DOMAIN e
                          /\ e.properties.t = "dict"
                          /\ "elements" \in DOMAIN e.properties.v
                       THEN e.properties.v.elements.v
                       ELSE <<>>
         IN  own \o search_children(nested, form_id, form_name)
                 \o search_children(children, form_id, form_name)

\* _search_elements: the dependencies appended while walking one element
search_elements(element, form_id, form_name) ==
    IF element.t # "dict" THEN <<>>
    ELSE LET e == element.v
             class_name == Get(e, "className", JStr(<<>>)).v
             field_type == get_field_type(class_name)
             own == IF field_type \in MDM_FIELD_TYPES
                    THEN analyze_mdm_field(e, form_id, form_name, field_type)
                    ELSE <<>>
             children == IF "elements" \in DOMAIN e THEN e.elements.v ELSE <<>>
             nested == IF /\ "properties" \in DOMAIN e
                          /\ e.properties.t = "dict"
                          /\ "elements" \in DOMAIN e.properties.v
                       THEN e.properties.v.elements.v
                       ELSE <<>>
         IN  own \o search_children(children, form_id, form_name)
                 \o search_children(nested, form_id, form_name)

\* the `for child in ...` loops of _search_elements
search_children(children, form_id, form_name) ==
    IF children = <<>> THEN <<>>
    ELSE search_elements(children[1], form_id, form_name)
             \o search_children(Tail(children), form_id, form_name)

RECURSIVE search_elements_calls(_)
RECURSIVE search_children_calls(_)

\* _search_elements without the child loop over properties.elements
search_elements_calls_elements_only(element) ==
    IF element.t # "dict" THEN <<>>
    ELSE LET e == element.v
             class_name == Get(e, "className", JStr(<<>>)).v
             field_type == get_field_type(class_name)
             own == IF field_type \in MDM_FIELD_TYPES THEN <<element>> ELSE <<>>
             children == IF "elements" \in DOMAIN e THEN e.elements.v ELSE <<>>
         IN  own \o search_children_calls(children)

\* _search_elements: the elements it hands to _analyze_mdm_field, in call order
search_elements_calls(element) ==
    IF element.t # "dict" THEN <<>>
    ELSE LET e == element.v
             class_name == Get(e, "className", JStr(<<>>)).v
             field_type == get_field_type(class_name)
             own == IF field_type \in MDM_FIELD_TYPES THEN <<element>> ELSE <<>>
             children == IF "elements" \in DOMAIN e THEN e.elements.v ELSE <<>>
             nested == IF /\ "properties" \in DOMAIN e
                          /\ e.properties.t = "dict"
                          /\ "elements" \in DOMAIN e.properties.v
                       THEN e.properties.v.elements.v
                       ELSE <<>>
         IN  own \o search_children_calls(children) \o search_children_calls(nested)

\* the `for child in ...` loops of _search_elements, as calls
search_children_calls(children) ==
    IF children = <<>> THEN <<>>
    ELSE search_elements_calls(children[1]) \o search_children_calls(Tail(children))

\* json.loads raises on form_json
form_json_raises(form) ==
    LET form_json == Get(form, "json", JDict(EmptyDict))
    IN  form_json.t = "text" /\ ~form_json.v.parses

\* _analyze_form: the dependencies one form contributes
analyze_form_deps(form) ==
    LET form_id == Get(form, "id", "unknown")
        form_name == Get(form, "name", "unknown")
        form_json == Get(form, "json", JDict(EmptyDict))
        parsed == IF form_json.t = "text" THEN form_json.v.doc ELSE form_json
    IN  search_elements(parsed, form_id, form_name)

\* stats[field][key] = stats[field].get(key, 0) + 1 over the dependencies
RECURSIVE count_by(_, _, _)
\* the counting loop with `= 1` in place of `.get(key, 0) + 1`
count_by_overwrites(deps, field, acc) ==
    IF deps = <<>> THEN acc
    ELSE LET key == deps[1][field]
         IN  count_by(Tail(deps), field,
                      [k \in DOMAIN acc \cup {key} |-> IF k = key THEN 1 ELSE acc[k]])

count_by(deps, field, acc) ==
    IF deps = <<>> THEN acc
    ELSE LET key == deps[1][field]
         IN  count_by(Tail(deps), field,
                      [k \in DOMAIN acc \cup {key} |->
                          IF k = key THEN Get(acc, k, 0) + 1 ELSE acc[k]])

\* _generate_statistics
generate_statistics(deps) ==
    [by_field_type |-> count_by(deps, "field_type", EmptyDict),
     by_options_source |-> count_by(deps, "options_source", EmptyDict),
     ajax_cascade_count |->
         Len(SelectSeq(deps, LAMBDA d : d.has_ajax_cascade)),
     unique_forms_with_mdm |->
         Cardinality({deps[i].form_id : i \in DOMAIN deps})]

\* _get_forms that drops the warning
get_forms_silent(data) ==
    IF "forms" \in DOMAIN data THEN [forms |-> data.forms, warnings |-> <<>>]
    ELSE [forms |-> Get(data, "formDefinitionList", <<>>), warnings |-> <<>>]

\* _get_forms: the form list and the warnings it adds
get_forms(data) ==
    IF "forms" \in DOMAIN data THEN [forms |-> data.forms, warnings |-> <<>>]
    ELSE IF "formDefinitionList" \in DOMAIN data
    THEN [forms |-> data.formDefinitionList, warnings |-> <<>>]
    ELSE [forms |-> <<>>,
          warnings |-> <<"Could not find forms in application structure">>]

\* _analyze_form: the _analyze_mdm_field calls one form causes
analyze_form_calls(form) ==
    LET form_json == Get(form, "json", JDict(EmptyDict))
        parsed == IF form_json.t = "text" THEN form_json.v.doc ELSE form_json
    IN  search_elements_calls(parsed)

(***************************************************************************)
(* Application exports the scan is run on                                  *)
(***************************************************************************)
MaxForms == 2        \* forms in the form list of a document

CN_SelectBox == <<"o","r","g",".","j","o","g","e","t",".","a","p","p","s",".","f","o","r","m",".","l","i","b",".","S","e","l","e","c","t","B","o","x">>
CN_TextField == <<"o","r","g",".","j","o","g","e","t",".","a","p","p","s",".","f","o","r","m",".","l","i","b",".","T","e","x","t","F","i","e","l","d">>
CN_Section == <<"o","r","g",".","j","o","g","e","t",".","a","p","p","s",".","f","o","r","m",".","m","o","d","e","l",".","S","e","c","t","i","o","n">>
CN_Column == <<"o","r","g",".","j","o","g","e","t",".","a","p","p","s",".","f","o","r","m",".","m","o","d","e","l",".","C","o","l","u","m","n">>
CN_Form == <<"o","r","g",".","j","o","g","e","t",".","a","p","p","s",".","f","o","r","m",".","m","o","d","e","l",".","F","o","r","m">>
CN_SubForm == <<"o","r","g",".","j","o","g","e","t",".","p","l","u","g","i","n",".","e","n","t","e","r","p","r","i","s","e",".","F","o","r","m","G","r","i","d">>
CN_JdbcOptionsBinder == <<"o","r","g",".","j","o","g","e","t",".","p","l","u","g","i","n",".","e","n","t","e","r","p","r","i","s","e",".","J","d","b","c","O","p","t","i","o","n","s","B","i","n","d","e","r">>
CN_FormOptionsBinder == <<"o","r","g",".","j","o","g","e","t",".","a","p","p","s",".","f","o","r","m",".","l","i","b",".","F","o","r","m","O","p","t","i","o","n","s","B","i","n","d","e","r">>
CN_jdbcoptions == <<"o","r","g",".","a","c","m","e",".","j","d","b","c","o","p","t","i","o","n","s">>
CN_BeanShellBinder == <<"o","r","g",".","j","o","g","e","t",".","p","l","u","g","i","n",".","e","n","t","e","r","p","r","i","s","e",".","B","e","a","n","S","h","e","l","l","F","o","r","m","B","i","n","d","e","r">>
CN_MultiSelectBox == <<"o","r","g",".","j","o","g","e","t",".","p","l","u","g","i","n",".","e","n","t","e","r","p","r","i","s","e",".","M","u","l","t","i","S","e","l","e","c","t","B","o","x">>
CN_CheckBox == <<"o","r","g",".","j","o","g","e","t",".","a","p","p","s",".","f","o","r","m",".","l","i","b",".","C","h","e","c","k","B","o","x">>
S_country == <<"c","o","u","n","t","r","y">>

Field(class_name, props) == JDict([className |-> JStr(class_name), properties |-> JDict(props)])
Binder(class_name) ==
    JDict([className |-> JStr(class_name), properties |-> JDict([source |-> "lookup"])])
StaticOptions == JList(<<"open", "closed">>)

E_TextField == Field(CN_TextField, [id |-> "notes", label |-> "Notes"])
E_SelectJdbc ==
    Field(CN_SelectBox, [id |-> "country", label |-> "Country",
                         optionsBinder |-> Binder(CN_JdbcOptionsBinder)])
E_SelectStatic ==
    Field(CN_SelectBox, [id |-> "status", label |-> "Status", options |-> StaticOptions])
E_SelectCascade ==
    Field(CN_SelectBox, [id |-> "city", label |-> "City", controlField |-> JStr(S_country)])
E_RadioForm ==
    Field(S_radio, [id |-> "kind", optionsBinder |-> Binder(CN_FormOptionsBinder)])
E_SelectLower ==
    Field(S_selectBox, [id |-> "region", options |-> StaticOptions,
                        optionsBinder |-> Binder(CN_jdbcoptions)])
E_SelectBeanShell ==
    Field(CN_SelectBox, [id |-> "owner", optionsBinder |-> Binder(CN_BeanShellBinder)])
E_SelectBinderStr ==
    Field(CN_SelectBox, [id |-> "legacy", options |-> StaticOptions,
                         optionsBinder |-> JStr(CN_JdbcOptionsBinder)])

E_RadioCascadeBoth ==
    Field(S_radio, [id |-> "district", label |-> "District", controlField |-> JStr(S_country),
                    cascadeOptions |-> JDict([source |-> "lookup"])])
E_SelectCascadeOptions ==
    Field(CN_SelectBox, [id |-> "ward", options |-> StaticOptions,
                         cascadeOptions |-> JDict([source |-> "lookup"])])

E_SelectEmptyControl ==
    Field(CN_SelectBox, [id |-> "street", optionsBinder |-> Binder(CN_JdbcOptionsBinder),
                         controlField |-> JStr(<<>>)])
E_RadioEmptyCascade ==
    Field(S_radio, [id |-> "zone", optionsBinder |-> Binder(CN_FormOptionsBinder),
                    cascadeOptions |-> JDict(EmptyDict)])
E_SelectStaticEmptyControl ==
    Field(CN_SelectBox, [id |-> "title", options |-> StaticOptions, controlField |-> JStr(<<>>)])
E_MultiSelectJdbc ==
    Field(CN_MultiSelectBox, [id |-> "tags", optionsBinder |-> Binder(CN_JdbcOptionsBinder)])
E_CheckBoxJdbc ==
    Field(CN_CheckBox, [id |-> "flags", optionsBinder |-> Binder(CN_JdbcOptionsBinder)])
E_SelectDefaultBinder ==
    Field(CN_SelectBox, [id |-> "gender", options |-> StaticOptions,
                         optionsBinder |-> JDict([className |-> JStr(<<>>)])])
E_SelectBinderStrCascade ==
    Field(CN_SelectBox, [id |-> "branch", options |-> StaticOptions,
                         optionsBinder |-> JStr(CN_JdbcOptionsBinder),
                         controlField |-> JStr(S_country)])

Section(kids) == JDict([className |-> JStr(CN_Section), elements |-> JList(kids)])
Column(kids) == JDict([className |-> JStr(CN_Column), elements |-> JList(kids)])
SubForm(kids) ==
    JDict([className |-> JStr(CN_SubForm),
           properties |-> JDict([id |-> "grid", elements |-> JList(kids)])])
Grid(kids, nested) ==
    JDict([className |-> JStr(CN_SubForm), elements |-> JList(kids),
           properties |-> JDict([id |-> "grid", elements |-> JList(nested)])])
FormRoot(kids) ==
    JDict([className |-> JStr(CN_Form), properties |-> JDict([id |-> "root"]),
           elements |-> JList(kids)])

F_customer ==
    [id |-> "customer", name |-> "Customer",
     json |-> JText(TRUE, FormRoot(<<Section(<<Column(<<E_SelectJdbc>>)>>)>>))]
F_notes ==
    [id |-> "notes", name |-> "Notes", json |-> FormRoot(<<Section(<<E_TextField>>)>>)]
F_order ==
    [id |-> "order", name |-> "Order",
     json |-> JText(TRUE, FormRoot(<<Section(<<E_SelectStatic, E_SelectCascade>>),
                                     SubForm(<<E_RadioForm, E_SelectBeanShell>>)>>))]
F_broken == [id |-> "broken", name |-> "Broken", json |-> JText(FALSE, JNull)]
F_anon ==
    [json |-> FormRoot(<<E_SelectLower, E_SelectBinderStr,
                         SubForm(<<Section(<<E_SelectStatic>>)>>)>>)]
F_empty == [id |-> "empty", name |-> "Empty"]
F_address ==
    [id |-> "address", name |-> "Address",
     json |-> FormRoot(<<Grid(<<E_SelectStatic, Section(<<E_RadioCascadeBoth>>)>>,
                              <<E_SelectJdbc, SubForm(<<E_SelectCascadeOptions>>)>>)>>)]
F_survey ==
    [name |-> "Survey",
     json |-> JText(TRUE, FormRoot(<<Section(<<E_SelectEmptyControl, E_RadioEmptyCascade,
                                               E_SelectStaticEmptyControl>>),
                                     Section(<<E_MultiSelectJdbc, E_CheckBoxJdbc>>),
                                     Section(<<E_SelectDefaultBinder,
                                               E_SelectBinderStrCascade>>)>>))]

FormPool ==
    {F_customer, F_notes, F_order, F_broken, F_anon, F_empty, F_address, F_survey}
FormLists == UNION {[1..n -> FormPool] : n \in 0..MaxForms}

AppDocs ==
    {[appId |-> "crm", appName |-> "CRM", forms |-> fs] : fs \in FormLists}
    \cup {[appId |-> "crm", formDefinitionList |-> fs] : fs \in FormLists}
    \cup {[forms |-> <<F_notes>>, formDefinitionList |-> <<F_customer, F_order>>],
          [appId |-> "crm", appName |-> "CRM"], EmptyDict}

\* what opening the archive and parsing its first .json file gives
Archives ==
    {[kind |-> "ok", doc |-> d] : d \in AppDocs}
    \cup {[kind |-> k, doc |-> EmptyDict] : k \in {"unopenable", "no_json", "bad_json"}}

NoReport ==
    [application_id |-> "none", application_name |-> "none", total_forms |-> -1,
     total_mdm_fields |-> -1, dependencies |-> <<>>, warnings |-> <<>>,
     statistics |-> EmptyDict]

\* the report with total_mdm_fields taken from the number of forms with a dependency
AnalysisReport_counts_forms(data, fs, deps, warns) ==
    [application_id |-> Get(data, "appId", "unknown"),
     application_name |-> Get(data, "appName", "unknown"),
     total_forms |-> Len(fs),
     total_mdm_fields |-> generate_statistics(deps).unique_forms_with_mdm,
     dependencies |-> deps,
     warnings |-> warns,
     statistics |-> generate_statistics(deps)]

\* stats = self._generate_statistics(); report = AnalysisReport(...)
AnalysisReport(data, fs, deps, warns) ==
    [application_id |-> Get(data, "appId", "unknown"),
     application_name |-> Get(data, "appName", "unknown"),
     total_forms |-> Len(fs),
     total_mdm_fields |-> Len(deps),
     dependencies |-> deps,
     warnings |-> warns,
     statistics |-> generate_statistics(deps)]

(***************************************************************************)
(* JogetAppAnalyzer and analyze_mdm_usage.main as a state machine          *)
(***************************************************************************)
\* JogetAppAnalyzer.__init__ on an export
AnalyzerConstructed(a) ==
    /\ archive = a
    /\ app_data = EmptyDict
    /\ forms = <<>>
    /\ fidx = 0
    /\ dependencies = <<>>
    /\ warnings = <<>>
    /\ report = NoReport
    /\ apc = "new"
    /\ scan_exit = NotExited
    /\ output = NoReport
    /\ evaluated = <<>>

\* _load_app_export that returns an empty document where it should exit
load_app_export_returns_empty ==
    /\ apc = "new"
    /\ app_data' = IF archive.kind = "ok" THEN archive.doc ELSE EmptyDict
    /\ apc' = "loaded"
    /\ UNCHANGED <<archive, forms, fidx, dependencies, warnings, report, scan_exit, output,
                   evaluated, hvars, mvars, cvars, lvars>>

\* self.app_data = self._load_app_export()
load_app_export ==
    /\ apc = "new"
    /\ IF archive.kind = "ok"
       THEN /\ app_data' = archive.doc
            /\ apc' = "loaded"
            /\ UNCHANGED scan_exit
       ELSE /\ apc' = "exited"                    \* sys.exit(1)
            /\ scan_exit' = 1
            /\ UNCHANGED app_data
    /\ UNCHANGED <<archive, forms, fidx, dependencies, warnings, report, output, evaluated,
                   hvars, mvars, cvars, lvars>>

\* forms = self._get_forms()
analyze_get_forms ==
    /\ apc = "loaded"
    /\ forms' = get_forms(app_data).forms
    /\ warnings' = warnings \o get_forms(app_data).warnings
    /\ apc' = "forms"
    /\ UNCHANGED <<archive, app_data, fidx, dependencies, report, scan_exit, output, evaluated,
                   hvars, mvars, cvars, lvars>>

\* one iteration of `for form in forms: self._analyze_form(form)`
analyze_form ==
    /\ apc = "forms"
    /\ fidx < Len(forms)
    /\ LET form == forms[fidx + 1]
       IN  IF form_json_raises(form)
           THEN /\ apc' = "raised"                \* JSONDecodeError leaves analyze
                /\ scan_exit' = 1
                /\ UNCHANGED <<fidx, dependencies, evaluated>>
           ELSE /\ dependencies' = dependencies \o analyze_form_deps(form)
                /\ evaluated' = evaluated \o analyze_form_calls(form)
                /\ fidx' = fidx + 1
                /\ UNCHANGED <<apc, scan_exit>>
    /\ UNCHANGED <<archive, app_data, forms, warnings, report, output, hvars, mvars, cvars, lvars>>

\* stats = self._generate_statistics(); report = AnalysisReport(...); return report
analyze_report ==
    /\ apc = "forms"
    /\ fidx = Len(forms)
    /\ report' = AnalysisReport(app_data, forms, dependencies, warnings)
    /\ apc' = "done"
    /\ UNCHANGED <<archive, app_data, forms, fidx, dependencies, warnings, scan_exit, output,
                   evaluated, hvars, mvars, cvars, lvars>>

\* main: json.dump(asdict(report), f) and the summary
scan_save_report ==
    /\ apc = "done"
    /\ output' = report
    /\ scan_exit' = 0
    /\ apc' = "saved"
    /\ UNCHANGED <<archive, app_data, forms, fidx, dependencies, warnings, report, evaluated,
                   hvars, mvars, cvars, lvars>>

\* the tool is run on another export: a new JogetAppAnalyzer
NewAnalyzer ==
    /\ apc \in {"saved", "exited", "raised"}
    /\ \E a \in Archives :
         /\ archive' = a
         /\ app_data' = EmptyDict
         /\ forms' = <<>>
         /\ fidx' = 0
         /\ dependencies' = <<>>
         /\ warnings' = <<>>
         /\ report' = NoReport
         /\ apc' = "new"
         /\ scan_exit' = NotExited
         /\ output' = NoReport
         /\ evaluated' = <<>>
    /\ UNCHANGED <<hvars, mvars, cvars, lvars>>

(***************************************************************************)
(* frs_platform/clients/joget_client.py: JogetAPIClient.get_health_status   *)
(* An HTTP call of the session either returns a response (status code and  *)
(* body) or raises.  A body is a JSON value, or text that is not JSON.      *)
(***************************************************************************)
NotJson == [t |-> "invalid", v |-> <<>>]
ApiResponse(code, body) == [kind |-> "response", status_code |-> code, body |-> body]
ApiRaises(k) == [kind |-> k, status_code |-> 0, body |-> NotJson]

\* what a call of a client method does: return a value or raise
Returns(value) == [raises |-> "none", value |-> value]
Raises(kind) == [raises |-> kind, value |-> JNull]

\* classes derived from requests.exceptions.RequestException
IsRequestException(kind) ==
    kind \in {"ConnectionError", "ConnectTimeout", "ReadTimeout", "TooManyRedirects",
              "HTTPError", "JSONDecodeError"}

\* len(value) is defined
HasLen(j) == j.t \in {"dict", "list", "str"}

\* len(value)
PyLen(j) == IF j.t = "dict" THEN Cardinality(DOMAIN j.v) ELSE Len(j.v)

\* JogetAPIClient.test_connection
test_connection(o) ==
    IF o.kind = "response" THEN Returns(o.status_code \in {200, 302})
    ELSE IF IsRequestException(o.kind) THEN Returns(FALSE)
    ELSE Raises(o.kind)

\* response.raise_for_status(); response.json()
response_json(o) ==
    IF o.kind # "response" THEN Raises(o.kind)
    ELSE IF o.status_code >= 400 /\ o.status_code < 600 THEN Raises("HTTPError")
    ELSE IF o.body.t = "invalid" THEN Raises("JSONDecodeError")
    ELSE Returns(o.body)

\* JogetAPIClient.get_system_info
get_system_info(o) ==
    LET r == response_json(o)
    IN  IF r.raises = "none" THEN r
        ELSE IF DerivesFromException(r.raises) THEN Returns(JDict(EmptyDict))
        ELSE r

\* list_applications with the failure swallowed the way get_system_info does
list_applications_swallows(o) ==
    LET r == response_json(o)
    IN  IF r.raises = "none"
        THEN IF r.value.t = "dict" THEN Returns(Get(r.value.v, "data", JList(<<>>)))
             ELSE Returns(JList(<<>>))
        ELSE IF DerivesFromException(r.raises) THEN Returns(JList(<<>>))
        ELSE r

\* JogetAPIClient.list_applications: every exception is logged and re-raised
list_applications(o) ==
    LET r == response_json(o)
    IN  IF r.raises = "none"
        THEN IF r.value.t = "dict" THEN Returns(Get(r.value.v, "data", JList(<<>>)))
             ELSE Raises("AttributeError")            \* data.get on a non-mapping
        ELSE r

\* JogetAPIClient.list_plugins: every exception is logged and re-raised
list_plugins(o) ==
    LET r == response_json(o)
    IN  IF r.raises = "none"
        THEN IF r.value.t = "dict" THEN Returns(Get(r.value.v, "data", JList(<<>>)))
             ELSE Raises("AttributeError")
        ELSE r

S_version == <<"8",".","1",".","6">>
B_html == NotJson
B_apps(n) == JDict([data |-> JList([i \in 1..n |-> "app"]), total |-> n])
B_nodata == JDict([total |-> 0])
B_datanull == JDict([data |-> JNull])
B_list == JList(<<"crm">>)
B_info == JDict([version |-> JStr(S_version), build |-> "x"])
B_infonoversion == JDict([status |-> "ok"])

ConnOutcomes ==
    {ApiResponse(200, B_html), ApiResponse(302, B_html), ApiResponse(401, B_html),
     ApiResponse(503, B_html)}
    \cup {ApiRaises(k) : k \in {"ConnectionError", "ReadTimeout", "Exception", "BaseException"}}

AppsOutcomes ==
    {ApiResponse(200, B_apps(2)), ApiResponse(200, B_apps(0)), ApiResponse(200, B_nodata),
     ApiResponse(200, B_datanull), ApiResponse(200, B_list), ApiResponse(200, B_html),
     ApiResponse(401, B_html), ApiResponse(500, B_apps(2))}
    \cup {ApiRaises(k) : k \in {"ConnectionError", "ReadTimeout", "BaseException"}}

InfoOutcomes ==
    {ApiResponse(200, B_info), ApiResponse(200, B_infonoversion),
     ApiResponse(200, JDict(EmptyDict)), ApiResponse(200, B_list), ApiResponse(200, B_html),
     ApiResponse(404, B_html)}
    \cup {ApiRaises(k) : k \in {"ReadTimeout", "BaseException"}}

PluginOutcomes ==
    {ApiResponse(200, B_apps(3)), ApiResponse(200, B_datanull), ApiResponse(403, B_html)}
    \cup {ApiRaises(k) : k \in {"ConnectionError", "BaseException"}}

\* the health mapping get_health_status starts from
NewHealth ==
    [reachable |-> FALSE, authenticated |-> FALSE, version |-> JNull,
     applications |-> 0, plugins |-> 0]

Call(endpoint, o) == [endpoint |-> endpoint, outcome |-> o]

\* no get_health_status call is in progress
ClientIdle ==
    /\ health = NewHealth
    /\ cpc = "idle"
    /\ calls = <<>>

\* get_health_status is entered: health = {...}
get_health_status ==
    /\ cpc = "idle"
    /\ health' = NewHealth
    /\ calls' = <<>>
    /\ cpc' = "connect"
    /\ UNCHANGED <<hvars, mvars, svars, lvars>>

\* the connectivity step without the `if health["reachable"]` guard: the
\* application list is requested whatever test_connection returned
health_test_connection_unguarded(o) ==
    /\ cpc = "connect"
    /\ calls' = Append(calls, Call("root", o))
    /\ LET r == test_connection(o)
       IN  IF r.raises = "none"
           THEN /\ health' = [health EXCEPT !.reachable = r.value]
                /\ cpc' = "apps"
           ELSE /\ UNCHANGED health
                /\ cpc' = IF DerivesFromException(r.raises) THEN "returned" ELSE "raised"
    /\ UNCHANGED <<hvars, mvars, svars, lvars>>

\* health["reachable"] = self.test_connection(); an exception of the call is
\* caught by the outer `except Exception`
health_test_connection(o) ==
    /\ cpc = "connect"
    /\ calls' = Append(calls, Call("root", o))
    /\ LET r == test_connection(o)
       IN  IF r.raises = "none"
           THEN /\ health' = [health EXCEPT !.reachable = r.value]
                /\ cpc' = IF r.value THEN "apps" ELSE "returned"
           ELSE /\ UNCHANGED health
                /\ cpc' = IF DerivesFromException(r.raises) THEN "returned" ELSE "raised"
    /\ UNCHANGED <<hvars, mvars, svars, lvars>>

\* apps = self.list_applications(); authenticated = True; applications = len(apps),
\* inside `try ... except Exception: health["authenticated"] = False`
health_list_applications(o) ==
    /\ cpc = "apps"
    /\ calls' = Append(calls, Call("apps", o))
    /\ LET r == list_applications(o)
       IN  IF r.raises = "none"
           THEN /\ health' =
                      IF HasLen(r.value)
                      THEN [health EXCEPT !.authenticated = TRUE,
                                          !.applications = PyLen(r.value)]
                      ELSE [health EXCEPT !.authenticated = FALSE]   \* TypeError of len
                /\ cpc' = "info"
           ELSE IF DerivesFromException(r.raises)
           THEN /\ health' = [health EXCEPT !.authenticated = FALSE]
                /\ cpc' = "info"
           ELSE /\ UNCHANGED health
                /\ cpc' = "raised"
    /\ UNCHANGED <<hvars, mvars, svars, lvars>>

\* sys_info = self.get_system_info(); if sys_info: version = sys_info.get("version");
\* a truthy sys_info that is not a mapping raises AttributeError, which the
\* outer `except Exception` catches
health_get_system_info(o) ==
    /\ cpc = "info"
    /\ calls' = Append(calls, Call("info", o))
    /\ LET r == get_system_info(o)
       IN  IF r.raises # "none"
           THEN /\ UNCHANGED health
                /\ cpc' = "raised"
           ELSE IF Truthy(r.value) /\ r.value.t # "dict"
           THEN /\ UNCHANGED health
                /\ cpc' = "returned"
           ELSE /\ health' =
                      IF Truthy(r.value)
                      THEN [health EXCEPT !.version = Get(r.value.v, "version", JNull)]
                      ELSE health
                /\ cpc' = IF health.authenticated THEN "plugins" ELSE "returned"
    /\ UNCHANGED <<hvars, mvars, svars, lvars>>

\* plugins = self.list_plugins(); health["plugins"] = len(plugins),
\* inside `try ... except Exception: pass`
health_list_plugins(o) ==
    /\ cpc = "plugins"
    /\ calls' = Append(calls, Call("plugins", o))
    /\ LET r == list_plugins(o)
       IN  IF r.raises = "none"
           THEN /\ health' = IF HasLen(r.value)
                             THEN [health EXCEPT !.plugins = PyLen(r.value)]
                             ELSE health
                /\ cpc' = "returned"
           ELSE IF DerivesFromException(r.raises)
           THEN /\ UNCHANGED health
                /\ cpc' = "returned"
           ELSE /\ UNCHANGED health
                /\ cpc' = "raised"
    /\ UNCHANGED <<hvars, mvars, svars, lvars>>

\* the caller goes on after get_health_status returned or raised
client_idle ==
    /\ cpc \in {"returned", "raised"}
    /\ health' = NewHealth
    /\ calls' = <<>>
    /\ cpc' = "idle"
    /\ UNCHANGED <<hvars, mvars, svars, lvars>>

(***************************************************************************)
(* frs_platform/utils/config_loader.py: ConfigLoader objects, the module   *)
(* global _config_loader and the module functions get_config_loader and    *)
(* get_config.  A loader is known by its identity, its position in         *)
(* `loaders`; a configuration file is missing, valid or invalid.           *)
(***************************************************************************)
MaxLoaders == 3

\* `_config_loader: Optional[ConfigLoader] = None`
NoLoader == 0

\* config_path = None
NoPath == "None"

\* EnvironmentSettings().frs_dev_config
DefaultPath == "default"

Paths == {DefaultPath, "custom"}

FileStates == {"missing", "valid", "invalid"}

\* self._config = None
NoConfig == [loaded |-> FALSE]

\* the FRSPlatformConfig built from the file at a path
FRSPlatformConfig(path) == [loaded |-> TRUE, source |-> path]

\* ConfigLoader.__init__
ConfigLoader(config_path) ==
    [config_path |-> IF config_path # NoPath THEN config_path ELSE DefaultPath,
     _config |-> NoConfig]

\* ConfigLoader.load: what it raises, the loader's _config afterwards and the
\* files afterwards
ConfigLoader_load(loader, fs, create_if_missing) ==
    LET path == loader.config_path
        created == fs[path] = "missing" /\ create_if_missing
        fs1 == IF created THEN [fs EXCEPT ![path] = "valid"] ELSE fs
    IN  IF fs[path] = "missing" /\ ~create_if_missing
        THEN [raises |-> "FileNotFoundError", _config |-> loader._config, files |-> fs]
        ELSE IF fs1[path] = "invalid"
        THEN [raises |-> "Exception", _config |-> loader._config, files |-> fs1]
        ELSE [raises |-> "none", _config |-> FRSPlatformConfig(path), files |-> fs1]

\* ConfigLoader.get_config
ConfigLoader_get_config(loader) ==
    IF loader._config = NoConfig
    THEN [raises |-> "RuntimeError", config |-> NoConfig]
    ELSE [raises |-> "none", config |-> loader._config]

\* get_config_loader that keeps the global loader when the path given is the
\* path it already has
get_config_loader_keeps_same_path(config_path) ==
    IF \/ _config_loader = NoLoader
       \/ /\ config_path # NoPath
          /\ loaders[_config_loader].config_path # config_path
    THEN [loaders |-> Append(loaders, ConfigLoader(config_path)),
          _config_loader |-> Len(loaders) + 1]
    ELSE [loaders |-> loaders, _config_loader |-> _config_loader]

\* get_config_loader: the loaders and the global after the call
get_config_loader(config_path) ==
    IF _config_loader = NoLoader \/ config_path # NoPath
    THEN [loaders |-> Append(loaders, ConfigLoader(config_path)),
          _config_loader |-> Len(loaders) + 1]
    ELSE [loaders |-> loaders, _config_loader |-> _config_loader]

\* the record of a call into the module
LoaderCall(op, path, target, loader, cfg, raises) ==
    [op |-> op, path |-> path, target |-> target, loader |-> loader, config |-> cfg,
     raises |-> raises]

NoCall == LoaderCall("none", NoPath, NoLoader, NoLoader, NoConfig, "none")

\* nothing of the module has been used yet
LoaderIdle ==
    /\ loaders = <<>>
    /\ _config_loader = NoLoader
    /\ files = [p \in Paths |-> "valid"]
    /\ lcall = NoCall

\* a caller invokes get_config_loader(config_path)
GetConfigLoader(config_path) ==
    LET r == get_config_loader(config_path)
    IN  /\ Len(r.loaders) <= MaxLoaders
        /\ loaders' = r.loaders
        /\ _config_loader' = r._config_loader
        /\ lcall' = LoaderCall("get_config_loader", config_path, NoLoader,
                               r._config_loader, NoConfig, "none")
        /\ UNCHANGED <<files, hvars, mvars, svars, cvars>>

\* a caller invokes the module function get_config()
GetConfig ==
    LET r == get_config_loader(NoPath)
        loader == r.loaders[r._config_loader]
        loaded == IF loader._config = NoConfig
                  THEN ConfigLoader_load(loader, files, FALSE)
                  ELSE [raises |-> "none", _config |-> loader._config, files |-> files]
        after == [loader EXCEPT !._config = loaded._config]
        got == ConfigLoader_get_config(after)
    IN  /\ Len(r.loaders) <= MaxLoaders
        /\ loaders' = [r.loaders EXCEPT ![r._config_loader] = after]
        /\ _config_loader' = r._config_loader
        /\ files' = loaded.files
        /\ lcall' = IF loaded.raises # "none"
                    THEN LoaderCall("get_config", NoPath, NoLoader, r._config_loader,
                                    NoConfig, loaded.raises)
                    ELSE LoaderCall("get_config", NoPath, NoLoader, r._config_loader,
                                    got.config, got.raises)
        /\ UNCHANGED <<hvars, mvars, svars, cvars>>

\* a holder of loader l invokes l.get_config()
LoaderGetConfig(l) ==
    LET got == ConfigLoader_get_config(loaders[l])
    IN  /\ lcall' = LoaderCall("ConfigLoader.get_config", NoPath, l, NoLoader,
                               got.config, got.raises)
        /\ UNCHANGED <<loaders, _config_loader, files, hvars, mvars, svars, cvars>>

\* a holder of loader l invokes l.load(create_if_missing)
LoaderLoad(l, create_if_missing) ==
    LET r == ConfigLoader_load(loaders[l], files, create_if_missing)
    IN  /\ loaders' = [loaders EXCEPT ![l]._config = r._config]
        /\ files' = r.files
        /\ lcall' = LoaderCall(IF create_if_missing THEN "ConfigLoader.load(True)"
                               ELSE "ConfigLoader.load(False)",
                               NoPath, l, NoLoader,
                               IF r.raises = "none" THEN r._config ELSE NoConfig, r.raises)
        /\ UNCHANGED <<_config_loader, hvars, mvars, svars, cvars>>

(***************************************************************************)
(* InstanceHealthChecker as a state machine                                *)
(***************************************************************************)
NoReturn == [overall_status |-> "none", results |-> <<>>]
NoHost == "any"

\* Descriptors a checker is constructed with
Configs == {INSTANCES.jdx1, INSTANCES.jdx4, CustomConfig}

\* InstanceHealthChecker.__init__: a fresh object
Constructed(cfg) ==
    /\ config = cfg
    /\ results = <<>>
    /\ pc = "new"
    /\ probe = <<>>
    /\ returned = NoReturn
    /\ runs = 0

\* main, idle
MainIdle ==
    /\ mpc = "idle"
    /\ args = None
    /\ instances_to_check = <<>>
    /\ idx = 0
    /\ all_results = <<>>
    /\ exit_code = NotExited

\* a later InstanceHealthChecker(...) replaces the object
NewChecker ==
    /\ pc \in {"returned", "raised"}
    /\ \E cfg \in Configs :
         /\ config' = cfg
         /\ results' = <<>>
         /\ pc' = "new"
         /\ probe' = <<>>
         /\ returned' = NoReturn
         /\ runs' = 0
    /\ UNCHANGED <<host, mvars, svars, cvars, lvars>>

\* run_all_checks, up to the first check
run_all_checks ==
    /\ pc = "new"
    /\ pc' = "web"
    /\ runs' = runs + 1
    /\ probe' = <<>>
    /\ UNCHANGED <<config, results, returned, host, mvars, svars, cvars, lvars>>

\* a further run_all_checks on the same object
run_all_checks_again ==
    /\ pc = "returned"
    /\ runs < MaxRuns
    /\ pc' = "web"
    /\ runs' = runs + 1
    /\ probe' = <<>>
    /\ UNCHANGED <<config, results, returned, host, mvars, svars, cvars, lvars>>

\* one check: append its CheckResult, or let the exception leave run_all_checks
CheckStep(cur, nxt, name, status, outs) ==
    /\ pc = cur
    /\ probe' = outs
    /\ IF status = PROPAGATES
       THEN pc' = "raised" /\ UNCHANGED results
       ELSE results' = Append(results, CheckResult(name, status)) /\ pc' = nxt
    /\ UNCHANGED <<config, returned, runs, host, mvars, svars, cvars, lvars>>

CheckWebInterface(o) ==
    CheckStep("web", "db", "Web Interface", check_web_interface(o), <<o>>)

CheckDatabaseConnection(first, second) ==
    CheckStep("db", "admin", "Database Connection",
              check_database_connection(first, second),
              IF database_retries(first) THEN <<first, second>> ELSE <<first>>)

CheckAdminConsole(o) ==
    CheckStep("admin", "proc", "Admin Console", check_admin_console(o), <<o>>)

CheckProcessRunning(o) ==
    CheckStep("proc", "disk", "Process Status", check_process_running(config, o), <<o>>)

CheckDiskSpace(o) ==
    CheckStep("disk", "mem", "Disk Space", check_disk_space(o), <<o>>)

CheckMemoryUsage(o) ==
    CheckStep("mem", "calc", "Memory Usage", check_memory_usage(o), <<o>>)

\* overall_status = self._calculate_overall_status(); return overall_status, self.results
run_all_checks_return ==
    /\ pc = "calc"
    /\ returned' = [overall_status |-> calculate_overall_status(results), results |-> results]
    /\ pc' = "returned"
    /\ UNCHANGED <<config, results, probe, runs, host, mvars, svars, cvars, lvars>>

\* ---- every probe outcome may differ from call to call ----
Init ==
    /\ \E cfg \in Configs : Constructed(cfg)
    /\ host = NoHost
    /\ MainIdle
    /\ AnalyzerConstructed([kind |-> "ok", doc |-> EmptyDict])
    /\ ClientIdle
    /\ LoaderIdle

Next ==
    \/ run_all_checks
    \/ \E o \in WebOutcomes : CheckWebInterface(o)
    \/ \E first \in DbOutcomes, second \in DbOutcomes : CheckDatabaseConnection(first, second)
    \/ \E o \in AdminOutcomes : CheckAdminConsole(o)
    \/ \E o \in ProcOutcomes : CheckProcessRunning(o)
    \/ \E o \in DiskOutcomes : CheckDiskSpace(o)
    \/ \E o \in MemOutcomes : CheckMemoryUsage(o)
    \/ run_all_checks_return
    \/ NewChecker

vars == <<hvars, mvars, svars, cvars, lvars>>

Spec == Init /\ [][Next]_vars

(***************************************************************************)
(* The same checker invoked repeatedly against a host whose state does not *)
(* change between the invocations.                                         *)
(***************************************************************************)
Hosts ==
    [web : {Response(200), HttpRaises("ConnectionError")},
     db : {Completed(0, <<>>), Completed(1, <<>>)},
     db_retry : {Completed(1, <<>>)},
     admin : {Response(302), Response(500)},
     proc : {Completed(0, <<PS_joget900, PS_Joget816>>), Completed(0, <<PS_bash>>),
             SubprocessRaises("TimeoutExpired")},
     disk : {Completed(0, <<DfHeader, DfRow(T_79pct)>>), Completed(0, <<DfHeader, DfRow(T_90pct)>>)},
     mem : {Completed(0, <<FreeHeader, FreeRow(T_1000, T_790)>>), SubprocessRaises("FileNotFoundError")}]

InitRerun ==
    /\ \E cfg \in Configs : Constructed(cfg)
    /\ host \in Hosts
    /\ MainIdle
    /\ AnalyzerConstructed([kind |-> "ok", doc |-> EmptyDict])
    /\ ClientIdle
    /\ LoaderIdle

NextRerun ==
    \/ run_all_checks
    \/ run_all_checks_again
    \/ CheckWebInterface(host.web)
    \/ CheckDatabaseConnection(host.db, host.db_retry)
    \/ CheckAdminConsole(host.admin)
    \/ CheckProcessRunning(host.proc)
    \/ CheckDiskSpace(host.disk)
    \/ CheckMemoryUsage(host.mem)
    \/ run_all_checks_return

SpecRerun == InitRerun /\ [][NextRerun]_vars

(***************************************************************************)
(* health_check.main                                                       *)
(***************************************************************************)
\* choices of --instance
InstanceNames == <<"jdx1", "jdx2", "jdx3", "jdx4", "jdx5", "jdx6">>

\* --config paths and the JSON document each file holds
ConfigFiles ==
    [stage_json |-> [instance_name |-> "stage", web_port |-> 8085, db_port |-> 3312, version |-> V_900],
     custom_json |-> CustomConfig,
     broken_json |-> [instance_name |-> "broken", version |-> V_900],
     empty_json |-> <<>>]

\* parsed command lines
Args(instance, cfg, all) == [instance |-> instance, config |-> cfg, all |-> all]
ArgSets ==
    {Args(None, None, FALSE), Args("jdx1", None, FALSE), Args("jdx4", None, FALSE),
     Args(None, None, TRUE), Args("jdx1", None, TRUE), Args("jdx4", "stage_json", FALSE)}
    \cup {Args(None, f, FALSE) : f \in DOMAIN ConfigFiles}

\* InstanceHealthChecker.__init__: self.config = config or INSTANCES.get(name, {});
\* an absent config argument (None) is falsy like the empty dict
checker_config(name, cfg) ==
    IF DOMAIN cfg # {} THEN cfg
    ELSE IF name \in DOMAIN INSTANCES THEN INSTANCES[name] ELSE <<>>

\* InstanceHealthChecker.__init__: the exception the constructor raises, if any
constructor_raises(name, cfg) ==
    LET c == checker_config(name, cfg)
    IN  IF DOMAIN c = {} THEN "ValueError"
        ELSE IF "web_port" \notin DOMAIN c \/ "db_port" \notin DOMAIN c THEN "KeyError"
        ELSE "none"

\* run_all_checks on a fresh checker against host h: the six checks in order
run_results(cfg, h) ==
    <<[check_name |-> "Web Interface", status |-> check_web_interface(h.web)],
      [check_name |-> "Database Connection", status |-> check_database_connection(h.db, h.db_retry)],
      [check_name |-> "Admin Console", status |-> check_admin_console(h.admin)],
      [check_name |-> "Process Status", status |-> check_process_running(cfg, h.proc)],
      [check_name |-> "Disk Space", status |-> check_disk_space(h.disk)],
      [check_name |-> "Memory Usage", status |-> check_memory_usage(h.mem)]>>

\* descriptors main can construct a checker with
MainConfigs ==
    {INSTANCES[n] : n \in DOMAIN INSTANCES}
    \cup {ConfigFiles[f] : f \in {g \in DOMAIN ConfigFiles :
                                     constructor_raises("custom", ConfigFiles[g]) = "none"}}

\* overall statuses run_all_checks can return on a fresh checker, per descriptor
RunStatuses ==
    [cfg \in MainConfigs |-> {calculate_overall_status(run_results(cfg, h)) : h \in Hosts}]

\* args = parser.parse_args() and the choice of instances_to_check
main_parse ==
    /\ mpc = "idle"
    /\ \E a \in ArgSets :
         /\ args' = a
         /\ IF a.instance = None /\ a.config = None /\ ~a.all
            THEN /\ mpc' = "usage_error"          \* parser.error
                 /\ exit_code' = 2
                 /\ UNCHANGED instances_to_check
            ELSE /\ mpc' = "loop"
                 /\ exit_code' = NotExited
                 /\ instances_to_check' =
                        IF a.all THEN [i \in 1..6 |-> [name |-> InstanceNames[i], config |-> <<>>]]
                        ELSE IF a.config # None
                        THEN LET doc == ConfigFiles[a.config]
                             IN  <<[name |-> Get(doc, "instance_name", "custom"), config |-> doc]>>
                        ELSE <<[name |-> a.instance, config |-> <<>>]>>
    /\ idx' = 0
    /\ all_results' = <<>>
    /\ UNCHANGED <<hvars, svars, cvars, lvars>>

\* one iteration of `for instance in instances_to_check`
main_check_instance ==
    /\ mpc = "loop"
    /\ idx < Len(instances_to_check)
    /\ LET instance == instances_to_check[idx + 1]
           cfg == checker_config(instance.name, instance.config)
       IN  IF constructor_raises(instance.name, instance.config) # "none"
           THEN /\ mpc' = "crashed"               \* uncaught exception, traceback
                /\ exit_code' = 1
                /\ UNCHANGED <<idx, all_results>>
           ELSE \E overall_status \in RunStatuses[cfg] :
                  /\ all_results' =
                        [n \in DOMAIN all_results \cup {instance.name} |->
                            IF n = instance.name THEN overall_status ELSE all_results[n]]
                  /\ idx' = idx + 1
                  /\ UNCHANGED <<mpc, exit_code>>
    /\ UNCHANGED <<args, instances_to_check, hvars, svars, cvars, lvars>>

\* the exit status with any() in place of all() in the first test
main_exit_code_any(ar) ==
    IF \E n \in DOMAIN ar : ar[n] = HEALTHY THEN 0
    ELSE IF \E n \in DOMAIN ar : ar[n] = UNHEALTHY THEN 2
    ELSE 1

\* the exit status main chooses from all_results
main_exit_code(ar) ==
    IF \A n \in DOMAIN ar : ar[n] = HEALTHY THEN 0
    ELSE IF \E n \in DOMAIN ar : ar[n] = UNHEALTHY THEN 2
    ELSE 1

\* sys.exit(...) at the end of main
main_exit ==
    /\ mpc = "loop"
    /\ idx = Len(instances_to_check)
    /\ exit_code' = main_exit_code(all_results)
    /\ mpc' = "exited"
    /\ UNCHANGED <<args, instances_to_check, idx, all_results, hvars, svars, cvars, lvars>>

\* the tool is started again
main_restart ==
    /\ mpc \in {"exited", "crashed", "usage_error"}
    /\ mpc' = "idle"
    /\ args' = None
    /\ instances_to_check' = <<>>
    /\ idx' = 0
    /\ all_results' = <<>>
    /\ exit_code' = NotExited
    /\ UNCHANGED <<hvars, svars, cvars, lvars>>

InitMain ==
    /\ Constructed(CustomConfig)
    /\ host = NoHost
    /\ MainIdle
    /\ AnalyzerConstructed([kind |-> "ok", doc |-> EmptyDict])
    /\ ClientIdle
    /\ LoaderIdle

NextMain ==
    \/ main_parse
    \/ main_check_instance
    \/ main_exit
    \/ main_restart

SpecMain == InitMain /\ [][NextMain]_vars

(***************************************************************************)
(* The scan of an application export                                       *)
(***************************************************************************)
InitScan ==
    /\ Constructed(CustomConfig)
    /\ host = NoHost
    /\ MainIdle
    /\ \E a \in Archives : AnalyzerConstructed(a)
    /\ ClientIdle
    /\ LoaderIdle

NextScan ==
    \/ load_app_export
    \/ analyze_get_forms
    \/ analyze_form
    \/ analyze_report
    \/ scan_save_report
    \/ NewAnalyzer

SpecScan == InitScan /\ [][NextScan]_vars

(***************************************************************************)
(* get_health_status calls of one client                                   *)
(***************************************************************************)
InitClient ==
    /\ Constructed(CustomConfig)
    /\ host = NoHost
    /\ MainIdle
    /\ AnalyzerConstructed([kind |-> "ok", doc |-> EmptyDict])
    /\ cpc = "idle"
    /\ health = NewHealth
    /\ calls = <<>>
    /\ LoaderIdle

NextClient ==
    \/ get_health_status
    \/ \E o \in ConnOutcomes : health_test_connection(o)
    \/ \E o \in AppsOutcomes : health_list_applications(o)
    \/ \E o \in InfoOutcomes : health_get_system_info(o)
    \/ \E o \in PluginOutcomes : health_list_plugins(o)
    \/ client_idle

SpecClient == InitClient /\ [][NextClient]_vars

\* ---- the configuration loader alone: the module is imported afresh ----
InitLoader ==
    /\ Constructed(CustomConfig)
    /\ host = NoHost
    /\ MainIdle
    /\ AnalyzerConstructed([kind |-> "ok", doc |-> EmptyDict])
    /\ ClientIdle
    /\ loaders = <<>>
    /\ _config_loader = NoLoader
    /\ files \in [Paths -> FileStates]
    /\ lcall = NoCall

NextLoader ==
    \/ \E config_path \in Paths \cup {NoPath} : GetConfigLoader(config_path)
    \/ GetConfig
    \/ \E l \in DOMAIN loaders : LoaderGetConfig(l)
    \/ \E l \in DOMAIN loaders : \E create_if_missing \in BOOLEAN :
           LoaderLoad(l, create_if_missing)

SpecLoader == InitLoader /\ [][NextLoader]_vars

(***************************************************************************)
(* Properties of the health evaluator                                      *)
(***************************************************************************)
StatusesOf(rs) == {rs[i].status : i \in DOMAIN rs}

\* the severity order UNHEALTHY > DEGRADED > UNKNOWN > HEALTHY over the
\* statuses that are present, whatever their position and multiplicity
WorstPresent(present) ==
    IF UNHEALTHY \in present THEN UNHEALTHY
    ELSE IF DEGRADED \in present THEN DEGRADED
    ELSE IF UNKNOWN \in present THEN UNKNOWN
    ELSE HEALTHY

\* C1: for every sequence of CheckResults a checker holds (the empty one
\* included), _calculate_overall_status is UNHEALTHY if any result is
\* UNHEALTHY, else DEGRADED if any is DEGRADED, else UNKNOWN if any is
\* UNKNOWN, else HEALTHY; it depends only on which statuses are present,
\* not on their order or number; the returned overall status is that value.
C1_OverallReduction ==
    /\ calculate_overall_status(results) = WorstPresent(StatusesOf(results))
    /\ pc = "returned" =>
         returned.overall_status = WorstPresent(StatusesOf(returned.results))

\* a run returned DEGRADED although UNKNOWN results outnumber the DEGRADED
\* ones and a HEALTHY result comes first
C1_Witness ==
    /\ pc = "returned"
    /\ returned.overall_status = DEGRADED
    /\ returned.results[1].status = HEALTHY
    /\ count_status(returned.results, UNKNOWN) >= 2
    /\ count_status(returned.results, DEGRADED) = 1

EvaluatedInstances == DOMAIN all_results

\* C2: the exit code of the health tool is 0 iff every evaluated instance
\* is HEALTHY, 2 if at least one is UNHEALTHY, 1 in the remaining cases;
\* the evaluated instances are exactly the ones selected by --instance,
\* --config or --all.
C2_ExitCode ==
    mpc = "exited" =>
        /\ EvaluatedInstances =
               {instances_to_check[i].name : i \in 1..Len(instances_to_check)}
        /\ (exit_code = 0) <=> (\A n \in EvaluatedInstances : all_results[n] = HEALTHY)
        /\ (\E n \in EvaluatedInstances : all_results[n] = UNHEALTHY) => exit_code = 2
        /\ ((\E n \in EvaluatedInstances : all_results[n] \in {DEGRADED, UNKNOWN})
            /\ (\A n \in EvaluatedInstances : all_results[n] # UNHEALTHY)) => exit_code = 1
        /\ exit_code \in {0, 1, 2}

\* an --all run over six instances, some HEALTHY, one UNKNOWN, none
\* UNHEALTHY or DEGRADED, exits with 1
C2_Witness ==
    /\ mpc = "exited"
    /\ args.all
    /\ Cardinality(EvaluatedInstances) = 6
    /\ \E n \in EvaluatedInstances : all_results[n] = UNKNOWN
    /\ \E n \in EvaluatedInstances : all_results[n] = HEALTHY
    /\ \A n \in EvaluatedInstances : all_results[n] \in {HEALTHY, UNKNOWN}
    /\ exit_code = 1

CheckNames ==
    <<"Web Interface", "Database Connection", "Admin Console",
      "Process Status", "Disk Space", "Memory Usage">>

\* C3: every run_all_checks on a checker, the first and the later ones,
\* returns exactly six CheckResults, one per check in the fixed order, and
\* the overall status is the reduction of those six.
C3_SixResultsPerRun ==
    pc = "returned" =>
        /\ Len(returned.results) = 6
        /\ \A i \in 1..6 : returned.results[i].check_name = CheckNames[i]
        /\ returned.overall_status = WorstPresent(StatusesOf(returned.results))

\* position of the next check of the current run
ChecksDone ==
    CASE pc \in {"new", "web"} -> 0
      [] pc = "db" -> 1
      [] pc = "admin" -> 2
      [] pc = "proc" -> 3
      [] pc = "disk" -> 4
      [] pc = "mem" -> 5
      [] pc \in {"calc", "returned"} -> 6

\* C4: whatever the six probes do (return, error status, timeout, missing
\* tool, unparsable output, any exception derived from Exception),
\* run_all_checks does not raise, each check that has run has appended
\* exactly one CheckResult under its own name, and a later check leaves the
\* results recorded before it as they are.
C4_ChecksIsolated ==
    /\ [](pc = "raised" => \E i \in DOMAIN probe : ~DerivesFromException(probe[i].kind))
    /\ [](pc # "raised" =>
            /\ Len(results) = ChecksDone
            /\ \A i \in 1..Len(results) : results[i].check_name = CheckNames[i])
    /\ [][pc' \notin {"new", "raised"} =>
            /\ Len(results') \in {Len(results), Len(results) + 1}
            /\ SubSeq(results', 1, Len(results)) = results]_vars

\* a run in which the web probe was refused, the SQL client was missing and
\* free printed a zero total still ran all six checks
C4_Witness ==
    /\ pc = "calc"
    /\ Len(results) = 6
    /\ results[1].status = UNHEALTHY
    /\ results[2].status = UNKNOWN
    /\ probe = <<Completed(0, <<FreeHeader, FreeRow(T_0, T_0)>>)>>
    /\ results[6].status = UNKNOWN

(***************************************************************************)
(* Properties of the MDM dependency scanner                                *)
(***************************************************************************)
ReportReturned == apc \in {"done", "saved"}

\* C5: after a scan that returns a report, report.total_mdm_fields equals
\* the length of report.dependencies, and so it does in the document
\* written from the report.
C5_TotalEqualsLength ==
    /\ ReportReturned => report.total_mdm_fields = Len(report.dependencies)
    /\ apc = "saved" => output.total_mdm_fields = Len(output.dependencies)

\* a report over a single form that holds three dependencies
C5_Witness ==
    /\ ReportReturned
    /\ report.total_forms = 1
    /\ report.total_mdm_fields = 3
    /\ Len(report.dependencies) = 3

\* C6: every MDMDependency in the dependencies list has an options_source
\* other than static or has_ajax_cascade true; the field of the examples
\* that has only a static `options` property (id "status") is never
\* recorded.
C6_NoPureStaticDependency ==
    \A i \in DOMAIN dependencies :
        /\ dependencies[i].options_source # S_static \/ dependencies[i].has_ajax_cascade
        /\ dependencies[i].field_id # "status"

\* the form with the static-only field was walked: its cascade field is
\* recorded with a static source, its static-only sibling is not
C6_Witness ==
    /\ fidx >= 1
    /\ forms[fidx] = F_order
    /\ \E i \in DOMAIN dependencies :
          /\ dependencies[i].field_id = "city"
          /\ dependencies[i].options_source = S_static
          /\ dependencies[i].has_ajax_cascade
    /\ \A i \in DOMAIN dependencies : dependencies[i].field_id # "status"

\* C7: a form whose embedded JSON fails to parse does not abort the scan:
\* no exception leaves analyze, and a report over a form list that holds
\* such a form carries a warning and covers every form of the list.
C7_FormParseFailureIsolated ==
    /\ apc # "raised"
    /\ (ReportReturned /\ \E i \in DOMAIN forms : form_json_raises(forms[i])) =>
          /\ Len(report.warnings) >= 1
          /\ fidx = Len(forms)

\* the first known binder key contained in the identifier, letter case ignored
binder_key_ignoring_case(binder_class) ==
    LET hits == {i \in 1..Len(EXTERNAL_BINDERS) :
                    StrIn(lower(EXTERNAL_BINDERS[i]), lower(binder_class))}
    IN  IF hits = {} THEN S_unknown
        ELSE EXTERNAL_BINDERS[CHOOSE i \in hits : \A j \in hits : i <= j]

\* the optionsBinder type identifier of the example fields, by field id
FieldBinders ==
    [country |-> CN_JdbcOptionsBinder, kind |-> CN_FormOptionsBinder,
     region |-> CN_jdbcoptions, owner |-> CN_BeanShellBinder]

\* C8: a field whose optionsBinder type identifier contains, letter case
\* ignored, one of formOptions, jdbcOptions, restOptions is recorded with
\* that key as options_source (first key wins), and with `unknown` when it
\* contains none.
C8_BinderClassified ==
    \A i \in DOMAIN dependencies :
        dependencies[i].field_id \in DOMAIN FieldBinders =>
            dependencies[i].options_source =
                binder_key_ignoring_case(FieldBinders[dependencies[i].field_id])

\* C9: the scan of a document with two forms, one holding a selectBox bound
\* to a jdbcOptions binder and one holding only a textField, reports
\* total_forms = 2, total_mdm_fields = 1 and by_options_source = {jdbcOptions: 1}.
C9_TwoFormScenario ==
    (ReportReturned /\ forms \in {<<F_customer, F_notes>>, <<F_notes, F_customer>>}) =>
        /\ report.total_forms = 2
        /\ report.total_mdm_fields = 1
        /\ report.statistics.by_options_source = (S_jdbcOptions :> 1)

FormKeys == {"forms", "formDefinitionList"}

\* C10: a document with neither `forms` nor `formDefinitionList` is scanned
\* without a fatal failure: the form list is empty, exactly one warning and
\* no dependency are recorded, and the report has total_forms = 0 and
\* total_mdm_fields = 0.
C10_MissingFormsKey ==
    (archive.kind = "ok" /\ DOMAIN archive.doc \cap FormKeys = {}) =>
          /\ apc \notin {"raised", "exited"}
          /\ apc \in {"forms", "done", "saved"} =>
                /\ forms = <<>>
                /\ Len(warnings) = 1
                /\ dependencies = <<>>
          /\ ReportReturned =>
                /\ report.total_forms = 0
                /\ report.total_mdm_fields = 0
                /\ Len(report.warnings) = 1
                /\ report.dependencies = <<>>

\* the report of a document without either key was written
C10_Witness ==
    /\ apc = "saved"
    /\ archive.kind = "ok"
    /\ DOMAIN archive.doc = {"appId", "appName"}
    /\ output.total_forms = 0
    /\ Len(output.warnings) = 1
    /\ scan_exit = 0

\* C11: when the archive cannot be opened, holds no .json file, or its first
\* .json file fails to parse, the scan ends by terminating the process with a
\* nonzero exit status; no form is analysed, no report is produced and none
\* is written.
C11_LoadFailureFatal ==
    archive.kind \in {"unopenable", "no_json", "bad_json"} =>
        /\ apc \in {"new", "exited"}
        /\ apc = "exited" => scan_exit # 0 /\ scan_exit # NotExited
        /\ fidx = 0 /\ forms = <<>> /\ dependencies = <<>> /\ evaluated = <<>>
        /\ report = NoReport
        /\ output = NoReport

\* the scan of an archive without a .json file has exited with status 1
C11_Witness ==
    /\ archive.kind = "no_json"
    /\ apc = "exited"
    /\ scan_exit = 1
    /\ output = NoReport

PropertiesOf(element) == Get(element.v, "properties", JDict(EmptyDict)).v

\* the property is present on the field and holds a non-empty value
IsSet(element, key) ==
    key \in DOMAIN PropertiesOf(element) /\ Truthy(PropertiesOf(element)[key])

\* C12: every candidate field that has controlField set and no optionsBinder
\* is recorded, with options_source static, has_ajax_cascade true and a
\* cascade_config mapping holding the field's controlField value and its
\* cascadeOptions value; and a recorded dependency has cascade_config None
\* exactly when has_ajax_cascade is false.
C12_CascadeRecorded ==
    /\ \A i \in DOMAIN evaluated :
          LET x == evaluated[i]
              props == PropertiesOf(x)
          IN  (IsSet(x, "controlField") /\ "optionsBinder" \notin DOMAIN props) =>
                  \E j \in DOMAIN dependencies :
                      LET d == dependencies[j]
                      IN  /\ d.field_id = props.id
                          /\ d.options_source = S_static
                          /\ d.has_ajax_cascade
                          /\ d.cascade_config.t = "dict"
                          /\ DOMAIN d.cascade_config.v = {"controlField", "cascadeOptions"}
                          /\ d.cascade_config.v.controlField = props.controlField
                          /\ "cascadeOptions" \in DOMAIN props =>
                                 d.cascade_config.v.cascadeOptions = props.cascadeOptions
    /\ \A j \in DOMAIN dependencies :
          (dependencies[j].cascade_config = JNull) <=> ~dependencies[j].has_ajax_cascade

\* the field with both controlField and cascadeOptions was recorded next to
\* a binder-bound field that carries no cascade_config
C12_Witness ==
    /\ \E j \in DOMAIN dependencies :
          /\ dependencies[j].field_id = "district"
          /\ dependencies[j].options_source = S_static
          /\ dependencies[j].cascade_config =
                 JDict([controlField |-> JStr(S_country),
                        cascadeOptions |-> JDict([source |-> "lookup"])])
    /\ \E j \in DOMAIN dependencies :
          /\ dependencies[j].field_id = "country"
          /\ ~dependencies[j].has_ajax_cascade
          /\ dependencies[j].cascade_config = JNull

(***************************************************************************)
(* Classification tables of the six checks                                 *)
(***************************************************************************)
\* the result the check that has just run appended, and its probe outcome
LastResult == results[Len(results)]
LastProbe == probe[1]

\* the three tiers of a used-percentage, boundaries half-open
Tier(p) ==
    CASE p < 80 -> HEALTHY
      [] 80 <= p /\ p < 90 -> DEGRADED
      [] p >= 90 -> UNHEALTHY

\* the second line of df has a fifth column that is an integer percentage
DiskParsable(o) ==
    /\ Len(o.stdout) >= 2
    /\ Len(o.stdout[2]) >= 5
    /\ IsInt(rstrip(o.stdout[2][5], T_pct))

\* C13: the disk check classifies the integer used-percentage p read from
\* the root filesystem's df line as HEALTHY for p < 80, DEGRADED for
\* 80 <= p < 90 and UNHEALTHY for p >= 90 (79, 80, 89, 90 give HEALTHY,
\* DEGRADED, DEGRADED, UNHEALTHY); output with fewer than two lines, fewer
\* than five columns or a non-integer percentage gives UNKNOWN.
C13_DiskThresholds ==
    (pc = "mem" /\ LastProbe.kind = "completed") =>
        /\ LastResult.check_name = "Disk Space"
        /\ DiskParsable(LastProbe) =>
               LastResult.status = Tier(ParseInt(rstrip(LastProbe.stdout[2][5], T_pct)))
        /\ ~DiskParsable(LastProbe) => LastResult.status = UNKNOWN
        /\ LastProbe.stdout = <<DfHeader, DfRow(T_79pct)>> => LastResult.status = HEALTHY
        /\ LastProbe.stdout = <<DfHeader, DfRow(T_80pct)>> => LastResult.status = DEGRADED
        /\ LastProbe.stdout = <<DfHeader, DfRow(T_89pct)>> => LastResult.status = DEGRADED
        /\ LastProbe.stdout = <<DfHeader, DfRow(T_90pct)>> => LastResult.status = UNHEALTHY

\* df reported exactly 80% and the disk check recorded DEGRADED
C13_Witness ==
    /\ pc = "mem"
    /\ probe = <<Completed(0, <<DfHeader, DfRow(T_80pct)>>)>>
    /\ LastResult = CheckResult("Disk Space", DEGRADED)

\* C14: the web-interface check records one result: HTTP 200 gives HEALTHY,
\* any other status code DEGRADED, a refused connection UNHEALTHY, a request
\* timeout DEGRADED, any other exception UNHEALTHY; it never records UNKNOWN.
C14_WebClassification ==
    (pc = "db" /\ Len(probe) = 1) =>
        /\ LastResult.check_name = "Web Interface"
        /\ LastResult.status # UNKNOWN
        /\ LastProbe.kind = "response" =>
               LastResult.status = IF LastProbe.status_code = 200 THEN HEALTHY ELSE DEGRADED
        /\ IsTimeout(LastProbe.kind) => LastResult.status = DEGRADED
        /\ (IsConnectionError(LastProbe.kind) /\ ~IsTimeout(LastProbe.kind)) =>
               LastResult.status = UNHEALTHY
        /\ LastProbe.kind = "Exception" => LastResult.status = UNHEALTHY

\* C15: the database check records one result: first invocation exits 0 gives
\* HEALTHY; first non-zero and retry 0 gives HEALTHY; both non-zero gives
\* DEGRADED; client binary absent gives UNKNOWN; a timeout of the first
\* invocation or of the retry gives DEGRADED; it never records UNHEALTHY.
C15_DatabaseClassification ==
    (pc = "admin" /\ Len(probe) >= 1) =>
        LET first == probe[1]
            second == probe[Len(probe)]
            retried == Len(probe) = 2
        IN  /\ LastResult.check_name = "Database Connection"
            /\ LastResult.status # UNHEALTHY
            /\ (first.kind = "completed" /\ first.returncode = 0) =>
                   LastResult.status = HEALTHY /\ ~retried
            /\ (first.kind = "completed" /\ first.returncode # 0) =>
                   /\ retried
                   /\ (second.kind = "completed" /\ second.returncode = 0) =>
                          LastResult.status = HEALTHY
                   /\ (second.kind = "completed" /\ second.returncode # 0) =>
                          LastResult.status = DEGRADED
            /\ (first.kind = "FileNotFoundError" \/ second.kind = "FileNotFoundError") =>
                   LastResult.status = UNKNOWN
            /\ (first.kind = "TimeoutExpired" \/ second.kind = "TimeoutExpired") =>
                   LastResult.status = DEGRADED

\* the first invocation failed, the retry with the empty credential succeeded
C15_Witness ==
    /\ pc = "admin"
    /\ probe = <<Completed(1, <<>>), Completed(0, <<>>)>>
    /\ LastResult = CheckResult("Database Connection", HEALTHY)

\* C16: the admin-console check records one result: status 200, 302 or 401
\* gives HEALTHY, any other status DEGRADED, any exception DEGRADED; it never
\* records UNHEALTHY or UNKNOWN, so an overall status of UNHEALTHY always
\* comes from a result of another check.
C16_AdminClassification ==
    /\ (pc = "proc" /\ Len(probe) = 1) =>
          /\ LastResult.check_name = "Admin Console"
          /\ LastResult.status \in {HEALTHY, DEGRADED}
          /\ LastProbe.kind = "response" =>
                 (LastResult.status = HEALTHY <=> LastProbe.status_code \in {200, 302, 401})
          /\ LastProbe.kind # "response" => LastResult.status = DEGRADED
    /\ (pc = "returned" /\ returned.overall_status = UNHEALTHY) =>
          \E i \in DOMAIN returned.results :
              /\ returned.results[i].check_name # "Admin Console"
              /\ returned.results[i].status = UNHEALTHY

\* the console was refused while every other check was HEALTHY or UNKNOWN:
\* the run returned DEGRADED
C16_Witness ==
    /\ pc = "returned"
    /\ returned.results[3] = CheckResult("Admin Console", DEGRADED)
    /\ \A i \in DOMAIN returned.results : i # 3 => returned.results[i].status \in {HEALTHY, UNKNOWN}
    /\ returned.overall_status = DEGRADED

\* the line contains the version string the descriptor configures
HoldsConfiguredVersion(line) == "version" \in DOMAIN config /\ StrIn(config.version, line)

\* the line names the product, letter case ignored
NamesProduct(line) == StrIn(S_joget, lower(line))

\* C17: the process check is HEALTHY iff some line of the listing contains
\* both the product name and the configured version string, UNHEALTHY if no
\* line contains both, UNKNOWN if the listing tool cannot be run or times
\* out; for every descriptor, also one that configures no version.
C17_ProcessClassification ==
    (pc = "disk" /\ Len(probe) = 1) =>
        LET both == \E i \in DOMAIN LastProbe.stdout :
                        /\ NamesProduct(LastProbe.stdout[i])
                        /\ HoldsConfiguredVersion(LastProbe.stdout[i])
        IN  /\ LastResult.check_name = "Process Status"
            /\ LastProbe.kind = "completed" =>
                   /\ LastResult.status = HEALTHY <=> both
                   /\ ~both => LastResult.status = UNHEALTHY
            /\ LastProbe.kind \in {"FileNotFoundError", "TimeoutExpired"} =>
                   LastResult.status = UNKNOWN

\* the second line of free has integer total and used columns, total not 0
MemParsable(o) ==
    /\ Len(o.stdout) >= 2
    /\ Len(o.stdout[2]) >= 3
    /\ IsInt(o.stdout[2][2]) /\ IsInt(o.stdout[2][3])
    /\ ParseInt(o.stdout[2][2]) # 0

\* C18: the memory check classifies p, the integer part of used*100/total,
\* with the tiers of the disk check; when the tool is absent, its output is
\* unparsable or total is 0 the result is UNKNOWN, and the check does not
\* raise.
C18_MemoryThresholds ==
    /\ (pc = "calc" /\ Len(probe) = 1) =>
          /\ LastResult.check_name = "Memory Usage"
          /\ (LastProbe.kind = "completed" /\ MemParsable(LastProbe)) =>
                 LastResult.status =
                     Tier((ParseInt(LastProbe.stdout[2][3]) * 100)
                              \div ParseInt(LastProbe.stdout[2][2]))
          /\ (LastProbe.kind = "completed" /\ ~MemParsable(LastProbe)) =>
                 LastResult.status = UNKNOWN
          /\ LastProbe.kind = "FileNotFoundError" => LastResult.status = UNKNOWN
    /\ (pc = "raised" /\ Len(results) = 5 /\ runs = 1) =>
          LastProbe.kind \notin {"completed", "FileNotFoundError"}

\* free reported 899 of 1000 MB used and the memory check recorded DEGRADED
C18_Witness ==
    /\ pc = "calc"
    /\ probe = <<Completed(0, <<FreeHeader, FreeRow(T_1000, T_899)>>)>>
    /\ LastResult = CheckResult("Memory Usage", DEGRADED)

(***************************************************************************)
(* Properties of JogetAPIClient.get_health_status                          *)
(***************************************************************************)
\* listing the applications failed: no response, an error status, a body
\* that is not JSON or not a mapping
ListingFailed(o) ==
    \/ o.kind # "response"
    \/ o.status_code >= 400
    \/ o.body.t # "dict"

\* C19: get_health_status does not raise for any outcome of its HTTP calls;
\* a failure while listing applications (an authentication failure or any
\* other) leaves authenticated = false in the mapping; and in the mapping
\* authenticated implies reachable, applications > 0 implies authenticated,
\* plugins > 0 implies authenticated.
C19_HealthNeverRaises ==
    /\ cpc = "raised" => calls[Len(calls)].outcome.kind = "BaseException"
    /\ \A i \in DOMAIN calls :
          (calls[i].endpoint = "apps" /\ ListingFailed(calls[i].outcome) /\ cpc # "raised") =>
              ~health.authenticated
    /\ health.authenticated => health.reachable
    /\ health.applications > 0 => health.authenticated
    /\ health.plugins > 0 => health.authenticated

\* the instance answered, the application list was refused with 401 and the
\* call returned reachable without authenticated, with the version filled in
C19_Witness ==
    /\ cpc = "returned"
    /\ Len(calls) = 3
    /\ calls[2] = Call("apps", ApiResponse(401, B_html))
    /\ health.reachable
    /\ ~health.authenticated
    /\ health.version = JStr(S_version)
    /\ health.applications = 0 /\ health.plugins = 0

(***************************************************************************)
(* Properties of the element walk                                          *)
(***************************************************************************)
RECURSIVE NodesOf(_)
RECURSIVE NodesOfList(_)

\* every node of an element tree: the node, the nodes below each child under
\* `elements` and the nodes below each child under `properties.elements`
NodesOf(node) ==
    IF node.t # "dict" THEN <<>>
    ELSE <<node>>
         \o NodesOfList(IF "elements" \in DOMAIN node.v THEN node.v.elements.v ELSE <<>>)
         \o NodesOfList(IF "elements" \in DOMAIN PropertiesOf(node)
                        THEN PropertiesOf(node).elements.v ELSE <<>>)

NodesOfList(nodes) ==
    IF nodes = <<>> THEN <<>> ELSE NodesOf(nodes[1]) \o NodesOfList(Tail(nodes))

\* the element tree of a form
TreeOf(form) ==
    LET form_json == Get(form, "json", JDict(EmptyDict))
    IN  IF form_json.t = "text" THEN form_json.v.doc ELSE form_json

\* the nodes of the tree whose field-type tag is one of the four
CandidatesOf(form) ==
    SelectSeq(NodesOf(TreeOf(form)),
              LAMBDA n : get_field_type(Get(n.v, "className", JStr(<<>>)).v) \in MDM_FIELD_TYPES)

RECURSIVE CandidatesOfForms(_)
CandidatesOfForms(fs) ==
    IF fs = <<>> THEN <<>> ELSE CandidatesOf(fs[1]) \o CandidatesOfForms(Tail(fs))

Occurrences(seq, x) == Cardinality({i \in DOMAIN seq : seq[i] = x})

\* C20: both recursion paths are followed: over the forms walked so far,
\* every node whose field-type tag is selectBox, checkBox, radio or
\* multiselect has been evaluated as a candidate exactly once per occurrence
\* in the tree, at any depth and under `elements` or `properties.elements`,
\* nothing else has been evaluated, and the dependencies recorded are as many
\* as the candidates that meet the recording condition.
C20_BothPathsWalked ==
    LET expected == CandidatesOfForms(SubSeq(forms, 1, fidx))
    IN  /\ Len(evaluated) = Len(expected)
        /\ \A i \in DOMAIN expected :
              Occurrences(evaluated, expected[i]) = Occurrences(expected, expected[i])
        /\ Len(dependencies) =
               Cardinality({i \in DOMAIN expected :
                               analyze_mdm_field(expected[i].v, "form", "name", "type") # <<>>})

\* the form whose grid has children under both lists was walked: the field
\* two levels below `properties.elements` and the static field under
\* `elements` were both evaluated
C20_Witness ==
    /\ fidx = 1
    /\ forms[1] = F_address
    /\ Len(evaluated) = 4
    /\ \E i \in DOMAIN evaluated : evaluated[i] = E_SelectCascadeOptions
    /\ \E i \in DOMAIN evaluated : evaluated[i] = E_SelectStatic

(***************************************************************************)
\* the field id _analyze_mdm_field reads from an element
FieldId(element) == Get(PropertiesOf(element), "id", "unknown")

\* the property is present on the field, whatever its value
IsPresent(element, key) == key \in DOMAIN PropertiesOf(element)

\* C21 as stated: has_ajax_cascade is true for a candidate field whenever a
\* controlField or a cascadeOptions property is present, whatever its value
\* (an empty string or an empty mapping included), and false only when
\* neither is present; a field with either property present is therefore
\* recorded.
C21_CascadeIffPresent ==
    \A i \in DOMAIN evaluated :
        LET x == evaluated[i]
            present == IsPresent(x, "controlField") \/ IsPresent(x, "cascadeOptions")
        IN  /\ present => \E j \in DOMAIN dependencies :
                              dependencies[j].field_id = FieldId(x)
            /\ \A j \in DOMAIN dependencies :
                  dependencies[j].field_id = FieldId(x) =>
                      (dependencies[j].has_ajax_cascade <=> present)

\* C21 amended: has_ajax_cascade is true for a candidate field exactly when
\* its controlField or its cascadeOptions property holds a non-empty value; a
\* property that is present but empty (empty string, empty mapping) counts as
\* absent, so such a field is recorded only through its binder and then with
\* has_ajax_cascade false and no cascade_config.
C21_CascadeIffSet ==
    \A i \in DOMAIN evaluated :
        LET x == evaluated[i]
            set == IsSet(x, "controlField") \/ IsSet(x, "cascadeOptions")
        IN  /\ set => \E j \in DOMAIN dependencies :
                          dependencies[j].field_id = FieldId(x)
            /\ \A j \in DOMAIN dependencies :
                  dependencies[j].field_id = FieldId(x) =>
                      /\ dependencies[j].has_ajax_cascade <=> set
                      /\ ~set => dependencies[j].cascade_config = JNull
            /\ (~set /\ ~(/\ IsPresent(x, "optionsBinder")
                          /\ PropertiesOf(x).optionsBinder.t = "dict")) =>
                  \A j \in DOMAIN dependencies : dependencies[j].field_id # FieldId(x)

\* the form with the empty-valued cascade properties was walked: the two
\* binder-bound fields are recorded without a cascade and the static field
\* with an empty controlField is not recorded
C21_Witness ==
    /\ fidx = 1
    /\ forms[1] = F_survey
    /\ \E i \in DOMAIN evaluated : evaluated[i] = E_SelectStaticEmptyControl
    /\ \A j \in DOMAIN dependencies : dependencies[j].field_id # "title"
    /\ dependencies[1].field_id = "street" /\ ~dependencies[1].has_ajax_cascade
    /\ dependencies[2].field_id = "zone" /\ ~dependencies[2].has_ajax_cascade

(***************************************************************************)
\* C22: every request timeout of the web-interface check is recorded
\* DEGRADED, a timeout raised while the connection is being established
\* (at once a connection error and a timeout) included; only a failed
\* connection that is not a timeout is recorded UNHEALTHY.
C22_EveryTimeoutDegraded ==
    (pc = "db" /\ Len(probe) = 1 /\ LastProbe.kind # "response") =>
        /\ LastResult.check_name = "Web Interface"
        /\ IsTimeout(LastProbe.kind) => LastResult.status = DEGRADED
        /\ (IsConnectionError(LastProbe.kind) /\ LastResult.status = UNHEALTHY) =>
               ~IsTimeout(LastProbe.kind)

(***************************************************************************)
\* the database check is the check that ran last (it returned or it let an
\* exception through after the web check had recorded its result)
DatabaseCheckRan == pc = "admin" \/ (pc = "raised" /\ Len(results) = 1)

\* another check is the check that ran last
OtherCheckRan ==
    \/ pc \in {"db", "proc", "disk", "mem", "calc"}
    \/ pc = "raised" /\ Len(results) # 1

\* C23: in one run of the database check the SQL client is invoked at most
\* twice; the second invocation happens exactly when the first returned a
\* non-zero exit code, never after a first-invocation timeout, a missing
\* binary or a success; no other check invokes its probe more than once.
C23_AtMostOneRetry ==
    /\ DatabaseCheckRan =>
          /\ Len(probe) \in {1, 2}
          /\ Len(probe) = 2 <=> (probe[1].kind = "completed" /\ probe[1].returncode # 0)
          /\ probe[1].kind \in {"TimeoutExpired", "FileNotFoundError"} => Len(probe) = 1
    /\ OtherCheckRan => Len(probe) = 1

\* the first invocation exited non-zero, the client was invoked a second
\* time and that invocation timed out
C23_Witness ==
    /\ pc = "admin"
    /\ Len(probe) = 2
    /\ probe[1].kind = "completed" /\ probe[1].returncode # 0
    /\ probe[2].kind = "TimeoutExpired"
    /\ LastResult = CheckResult("Database Connection", DEGRADED)

(***************************************************************************)
\* the number of dependencies for which `field` holds `value`
CountWhere(deps, field, value) ==
    Cardinality({i \in DOMAIN deps : deps[i][field] = value})

\* the positions of the form list whose form contributes a dependency
FormsWithDependency(fs) ==
    {i \in DOMAIN fs : analyze_form_deps(fs[i]) # <<>>}

\* C24: the statistics of a report are exact counts over its dependencies:
\* by_field_type[t] is the number of dependencies with field_type t,
\* by_options_source[s] the number with options_source s, ajax_cascade_count
\* the number with has_ajax_cascade true, and unique_forms_with_mdm the number
\* of forms of the scanned form list that contain at least one recorded
\* dependency, also when several forms share an id or have no id.
C24_StatisticsExact ==
    ReportReturned =>
        LET deps == report.dependencies
            stats == report.statistics
        IN  /\ DOMAIN stats.by_field_type = {deps[i].field_type : i \in DOMAIN deps}
            /\ \A t \in DOMAIN stats.by_field_type :
                  stats.by_field_type[t] = CountWhere(deps, "field_type", t)
            /\ DOMAIN stats.by_options_source = {deps[i].options_source : i \in DOMAIN deps}
            /\ \A s \in DOMAIN stats.by_options_source :
                  stats.by_options_source[s] = CountWhere(deps, "options_source", s)
            /\ stats.ajax_cascade_count = CountWhere(deps, "has_ajax_cascade", TRUE)
            /\ stats.unique_forms_with_mdm = Cardinality(FormsWithDependency(forms))

(***************************************************************************)
\* s ends with suffix
EndsWith(s, suffix) ==
    /\ Len(s) >= Len(suffix)
    /\ SubSeq(s, Len(s) - Len(suffix) + 1, Len(s)) = suffix

\* the fully-qualified type identifier of a node
ClassNameOf(node) == Get(node.v, "className", JStr(<<>>)).v

RECURSIVE NodesOfForms(_)
\* the nodes of the trees of a list of forms, in walking order
NodesOfForms(fs) ==
    IF fs = <<>> THEN <<>> ELSE NodesOf(TreeOf(fs[1])) \o NodesOfForms(Tail(fs))

\* C25: the field-type tag of a node is the last dot-separated component of
\* its type identifier, and every identifier whose last component ends in
\* SelectBox (a plain SelectBox, a prefixed variant such as MultiSelectBox)
\* gets the tag selectBox: over the forms walked so far every such node has
\* been evaluated as a candidate, and a dependency recorded for it carries
\* the field type selectBox.
C25_SelectBoxSuffixCandidate ==
    LET nodes == NodesOfForms(SubSeq(forms, 1, fidx))
    IN  \A i \in DOMAIN nodes :
            LET n == nodes[i]
                last == LastComponent(ClassNameOf(n), S_dot)
            IN  (StrIn(<<S_dot>>, ClassNameOf(n)) /\ EndsWith(last, S_SelectBox)) =>
                    /\ \E k \in DOMAIN evaluated : evaluated[k] = n
                    /\ \A j \in DOMAIN dependencies :
                          dependencies[j].field_id = FieldId(n) =>
                              dependencies[j].field_type = S_selectBox

(***************************************************************************)
\* the dependencies recorded for an evaluated element
RecordedFor(element) ==
    SelectSeq(dependencies, LAMBDA d : d.field_id = FieldId(element))

\* the keys of EXTERNAL_BINDERS
BinderKeys == {EXTERNAL_BINDERS[i] : i \in DOMAIN EXTERNAL_BINDERS}

\* C26: for a candidate field with an `options` property and an
\* `optionsBinder` that is a mapping the binder decides: the field is always
\* recorded, with options_source the binder classification (a known key or
\* unknown, never static) and options_config the binder's nested properties;
\* when `optionsBinder` is present but not a mapping, options_source stays
\* static and the field is recorded only if it has an AJAX cascade.
C26_BinderDecides ==
    \A i \in DOMAIN evaluated :
        LET x == evaluated[i]
            props == PropertiesOf(x)
            recorded == RecordedFor(x)
        IN  IsPresent(x, "optionsBinder") =>
                IF props.optionsBinder.t = "dict"
                THEN IsPresent(x, "options") =>
                        /\ recorded # <<>>
                        /\ \A j \in DOMAIN recorded :
                              /\ recorded[j].options_source # S_static
                              /\ recorded[j].options_source \in BinderKeys \cup {S_unknown}
                              /\ recorded[j].options_config =
                                     Get(props.optionsBinder.v, "properties", JDict(EmptyDict))
                ELSE /\ \A j \in DOMAIN recorded :
                           /\ recorded[j].options_source = S_static
                           /\ recorded[j].has_ajax_cascade
                     /\ recorded # <<>> <=>
                            (IsSet(x, "controlField") \/ IsSet(x, "cascadeOptions"))

\* the form was walked whose fields carry static options next to a binder:
\* the field with a mapping binder is recorded from the binder, the field
\* whose binder is a string is recorded as static through its cascade
C26_Witness ==
    /\ fidx = 1
    /\ forms[1] = F_survey
    /\ Len(dependencies) = 4
    /\ dependencies[3].field_id = "gender"
    /\ dependencies[3].options_source = S_unknown
    /\ dependencies[3].options_config = JDict(EmptyDict)
    /\ dependencies[4].field_id = "branch"
    /\ dependencies[4].options_source = S_static
    /\ dependencies[4].options_config = StaticOptions

(***************************************************************************)
RECURSIVE RecordedInOrder(_, _, _)
\* what _analyze_mdm_field records for a sequence of candidate nodes of one
\* form, node by node
RecordedInOrder(nodes, form_id, form_name) ==
    IF nodes = <<>> THEN <<>>
    ELSE analyze_mdm_field(nodes[1].v, form_id, form_name,
                           get_field_type(ClassNameOf(nodes[1])))
         \o RecordedInOrder(Tail(nodes), form_id, form_name)

RECURSIVE PreOrderDependencies(_)
\* the dependencies of a list of forms: forms in list order and, within a
\* form, the candidates in depth-first pre-order (a node, then what lies
\* under `elements`, then what lies under `properties.elements`)
PreOrderDependencies(fs) ==
    IF fs = <<>> THEN <<>>
    ELSE RecordedInOrder(CandidatesOf(fs[1]), Get(fs[1], "id", "unknown"),
                         Get(fs[1], "name", "unknown"))
         \o PreOrderDependencies(Tail(fs))

\* C27: dependencies are appended in depth-first pre-order: forms in the
\* order of the form list and, within a form, a node's own dependency before
\* those of its descendants, descendants under `elements` before those under
\* `properties.elements`, siblings in list order; once appended, a dependency
\* is never removed, reordered or modified for the rest of the scan.
C27_PreOrderAppendOnly ==
    /\ [](dependencies = PreOrderDependencies(SubSeq(forms, 1, fidx)))
    /\ [](ReportReturned => report.dependencies = dependencies)
    /\ [][apc' # "new" =>
            /\ Len(dependencies') >= Len(dependencies)
            /\ SubSeq(dependencies', 1, Len(dependencies)) = dependencies]_vars

\* two forms were walked, the second with fields under both child lists: the
\* first form's dependencies come first, then the field under `elements` two
\* levels down, then the fields under `properties.elements`
C27_Witness ==
    /\ fidx = 2
    /\ forms = <<F_order, F_address>>
    /\ Len(dependencies) = Len(analyze_form_deps(F_order)) + 3
    /\ Len(analyze_form_deps(F_order)) >= 1
    /\ dependencies[Len(dependencies) - 2].field_id = "district"
    /\ dependencies[Len(dependencies) - 1].field_id = "country"
    /\ dependencies[Len(dependencies)].field_id = "ward"
    /\ dependencies[Len(dependencies)].form_id = "address"

(***************************************************************************)
RECURSIVE SumOf(_)
\* the sum of the values of a mapping
SumOf(f) ==
    IF DOMAIN f = {} THEN 0
    ELSE LET k == CHOOSE x \in DOMAIN f : TRUE
         IN  f[k] + SumOf([x \in DOMAIN f \ {k} |-> f[x]])

\* C28: in every report the statistics are consistent with the totals: the
\* values of by_field_type sum to total_mdm_fields, the values of
\* by_options_source sum to total_mdm_fields, ajax_cascade_count is at most
\* total_mdm_fields, unique_forms_with_mdm is at most total_forms and at most
\* total_mdm_fields, and every count stored in either mapping is at least 1.
C28_StatisticsConsistent ==
    ReportReturned =>
        LET stats == report.statistics
        IN  /\ SumOf(stats.by_field_type) = report.total_mdm_fields
            /\ SumOf(stats.by_options_source) = report.total_mdm_fields
            /\ stats.ajax_cascade_count <= report.total_mdm_fields
            /\ stats.unique_forms_with_mdm <= report.total_forms
            /\ stats.unique_forms_with_mdm <= report.total_mdm_fields
            /\ \A t \in DOMAIN stats.by_field_type : stats.by_field_type[t] >= 1
            /\ \A s \in DOMAIN stats.by_options_source : stats.by_options_source[s] >= 1

\* a report over two forms with dependencies of two field types and two
\* option sources, some with a cascade and some without
C28_Witness ==
    /\ ReportReturned
    /\ report.total_forms = 2
    /\ report.statistics.unique_forms_with_mdm = 2
    /\ report.total_mdm_fields >= 4
    /\ Cardinality(DOMAIN report.statistics.by_field_type) = 2
    /\ Cardinality(DOMAIN report.statistics.by_options_source) = 2
    /\ \E t \in DOMAIN report.statistics.by_field_type :
          report.statistics.by_field_type[t] >= 2
    /\ report.statistics.ajax_cascade_count \in 1..(report.total_mdm_fields - 1)

(***************************************************************************)
\* the endpoints requested so far, in request order
Endpoints == [i \in DOMAIN calls |-> calls[i].endpoint]

\* the request orders get_health_status can produce
GuardedOrders ==
    {<<>>, <<"root">>, <<"root", "apps">>, <<"root", "apps", "info">>,
     <<"root", "apps", "info", "plugins">>}

\* C29: get_health_status issues its requests in a fixed guarded order: the
\* connectivity test first; if it reports unreachable no further request is
\* made and the result is reachable false, authenticated false, version
\* None, applications 0, plugins 0; the application list is requested only
\* when reachable; the plugin list is requested only after the application
\* list succeeded; a failure of the plugin list or of the system-info
\* request leaves reachable and authenticated unchanged.
C29_GuardedRequestOrder ==
    /\ [](Endpoints \in GuardedOrders)
    /\ [](Len(calls) >= 1 =>
            (health.reachable <=>
                 (calls[1].outcome.kind = "response"
                      /\ calls[1].outcome.status_code \in {200, 302})))
    /\ []((Len(calls) >= 1 /\ ~health.reachable) =>
            /\ Len(calls) = 1
            /\ cpc \in {"returned", "raised"}
            /\ health = NewHealth)
    /\ [](Len(calls) >= 2 => health.reachable)
    /\ [](Len(calls) = 4 =>
            /\ ~ListingFailed(calls[2].outcome)
            /\ health.authenticated)
    /\ [][(cpc = "info" \/ cpc = "plugins") =>
            (/\ health'.reachable = health.reachable
             /\ health'.authenticated = health.authenticated
             /\ health'.applications = health.applications)]_vars

\* all four requests were made and the plugin list failed: the result keeps
\* reachable, authenticated and the application count and reports 0 plugins
C29_Witness ==
    /\ cpc = "returned"
    /\ Len(calls) = 4
    /\ calls[3].outcome = ApiResponse(404, B_html)
    /\ calls[4].outcome = ApiRaises("ConnectionError")
    /\ health.reachable /\ health.authenticated
    /\ health.applications = 2
    /\ health.version = JNull
    /\ health.plugins = 0

(***************************************************************************)
\* the loaders that existed before the step are the same objects afterwards
EarlierLoadersKept ==
    /\ Len(loaders') >= Len(loaders)
    /\ SubSeq(loaders', 1, Len(loaders)) = loaders

\* C30: for any sequence of get_config_loader calls, a call without a path
\* returns the current global loader unchanged and creates one only if none
\* exists; every call with a path replaces the global loader with a fresh
\* loader that has no loaded configuration, even when the path equals the
\* current loader's path; get_config on a loader with nothing loaded loads
\* the file first; ConfigLoader.get_config raises RuntimeError if called
\* before any successful load.
C30_GlobalLoaderReplaced ==
    /\ [][(lcall'.op = "get_config_loader" /\ lcall'.path = NoPath) =>
            (/\ lcall'.loader = _config_loader'
             /\ EarlierLoadersKept
             /\ IF _config_loader = NoLoader
                THEN /\ loaders' = Append(loaders, ConfigLoader(NoPath))
                     /\ _config_loader' = Len(loaders')
                ELSE /\ _config_loader' = _config_loader
                     /\ loaders' = loaders)]_vars
    /\ [][(lcall'.op = "get_config_loader" /\ lcall'.path # NoPath) =>
            (/\ lcall'.loader = _config_loader'
             /\ EarlierLoadersKept
             /\ _config_loader' = Len(loaders) + 1
             /\ Len(loaders') = Len(loaders) + 1
             /\ loaders'[_config_loader'].config_path = lcall'.path
             /\ loaders'[_config_loader']._config = NoConfig)]_vars
    /\ [][(lcall'.op = "get_config" /\ _config_loader # NoLoader
              /\ loaders[_config_loader]._config = NoConfig) =>
            LET path == loaders[_config_loader].config_path
            IN  (/\ _config_loader' = _config_loader
                 /\ files[path] = "missing" => lcall'.raises = "FileNotFoundError"
                 /\ files[path] = "valid" =>
                        /\ lcall'.raises = "none"
                        /\ lcall'.config = FRSPlatformConfig(path)
                        /\ loaders'[_config_loader]._config = FRSPlatformConfig(path)
                 /\ lcall'.raises # "none" => loaders' = loaders
                 /\ lcall'.raises # "RuntimeError")]_vars
    /\ [](lcall.op = "ConfigLoader.get_config" =>
            /\ lcall.raises = "RuntimeError" <=> loaders[lcall.target]._config = NoConfig
            /\ lcall.raises = "none" => lcall.config = loaders[lcall.target]._config)
    /\ [][\A l \in DOMAIN loaders :
             (loaders[l]._config = NoConfig /\ loaders'[l]._config # NoConfig) =>
                 /\ lcall'.op \in {"get_config", "ConfigLoader.load(True)",
                                   "ConfigLoader.load(False)"}
                 /\ lcall'.raises = "none"]_vars

\* the global loader had loaded the custom file and get_config_loader was
\* called with that same path: a second loader with nothing loaded is now
\* the global one, and the first still holds its configuration
C30_Witness ==
    /\ lcall.op = "get_config_loader"
    /\ lcall.path = "custom"
    /\ Len(loaders) = 2
    /\ _config_loader = 2
    /\ loaders[1] = [config_path |-> "custom", _config |-> FRSPlatformConfig("custom")]
    /\ loaders[2] = [config_path |-> "custom", _config |-> NoConfig]

====
